---- MODULE Spec2Model ----
(***************************************************************************)
(* Model of the storage engine of kasten: the filesystem tree               *)
(* (src/src/database/fs_db.rs) and the user database                       *)
(* (src/src/database/user_db.rs).  The sled trees are modelled as          *)
(* functions from keys (u64 ids, name bytes) to byte strings, and every    *)
(* record is kept in the exact byte layout the code writes, so that the    *)
(* offset arithmetic of the code is what the model evaluates.              *)
(***************************************************************************)
EXTENDS Integers, Sequences, FiniteSets, TLC

\* ------------------------------------------------------------------ bounds
\* Node ids are drawn from 1..MaxId (the code draws random non-zero u64s).
MaxId == 3
\* Number of operations of one run.
MaxOps == 3

\* ------------------------------------------------------- program constants
\* u16::MAX, the largest value of the 16 bit count fields.
U16Max == 65535

VARIABLES
    dir_tree,         \* sled tree "dirs":  dir_id  -> record bytes
    file_tree,        \* sled tree "files": file_id -> record bytes
    permissions_tree, \* sled tree "fs_node_permissions": node_id -> record bytes
    overflow_checks,  \* build profile: TRUE = integer overflow panics (debug)
    pre,              \* the three trees as they were before the last call
    last,             \* the last call: operation, arguments and result
    ops               \* number of calls made

\* The user database (src/src/database/user_db.rs), its sled trees keyed by
\* user id, group id or name bytes.
VARIABLES
    username_id_tree,    \* K: username, V: user_id
    userid_name_tree,    \* K: user_id,  V: username
    userid_pwd_tree,     \* K: user_id,  V: pwd_hash
    userid_rootdir_tree, \* K: user_id,  V: dir_id
    user_groups_tree,    \* K: user_id,  V: group_ids
    group_tree,          \* K: group_id, V: len(member_ids), member_ids, len(admin_ids), admin_ids, name
    groupname_id_tree,   \* K: groupname, V: group_id
    pre_user             \* the user database as it was before the last call

\* Two threads that call the engine at the same time: for each thread where
\* it stands in its call, the call, and what the call returned.
VARIABLES workers

\* The session store (src/src/database/mod.rs), and the threads that create
\* sessions at the same time.
VARIABLES
    session_tree,      \* K: session_id, V: user_id, createn_date
    user_session_tree, \* K: user_id, session_id
    pre_session,       \* the two session trees as they were before the last call
    logins,            \* per thread: where it stands in create_user_session
    utc_now            \* the clock Utc::now() reads, in seconds

fs_vars == <<dir_tree, file_tree, permissions_tree>>
user_vars == <<username_id_tree, userid_name_tree, userid_pwd_tree, userid_rootdir_tree,
               user_groups_tree, group_tree, groupname_id_tree>>

session_vars == <<session_tree, user_session_tree, pre_session, logins, utc_now>>

vars == <<dir_tree, file_tree, permissions_tree, overflow_checks, pre, last, ops,
          username_id_tree, userid_name_tree, userid_pwd_tree, userid_rootdir_tree,
          user_groups_tree, group_tree, groupname_id_tree, pre_user, workers,
          session_tree, user_session_tree, pre_session, logins, utc_now>>

\* ------------------------------------------------------------ byte strings
Byte == 0..255

\* Rust's bytes[lo..hi] (0-based, hi exclusive); panics unless InRange.
InRange(bytes, lo, hi) == lo <= hi /\ hi <= Len(bytes)
Slice(bytes, lo, hi) == SubSeq(bytes, lo + 1, hi)
SliceFrom(bytes, lo) == SubSeq(bytes, lo + 1, Len(bytes))

RECURSIVE from_be_bytes(_)
from_be_bytes(bytes) ==
    IF bytes = <<>> THEN 0
    ELSE 256 * from_be_bytes(SubSeq(bytes, 1, Len(bytes) - 1)) + bytes[Len(bytes)]

\* u16::to_be_bytes
u16_to_be_bytes(n) == <<(n \div 256) % 256, n % 256>>

\* u64::to_be_bytes; the ids of the model fit in the low four bytes.
u64_to_be_bytes(n) ==
    <<0, 0, 0, 0, (n \div 16777216) % 256, (n \div 65536) % 256, (n \div 256) % 256, n % 256>>

\* String::from_utf8 succeeds exactly on well-formed UTF-8.
Cont(b) == b >= 128 /\ b <= 191
RECURSIVE Utf8Ok(_)
Utf8Ok(s) ==
    IF s = <<>> THEN TRUE
    ELSE LET b == s[1] IN
         IF b < 128 THEN Utf8Ok(SubSeq(s, 2, Len(s)))
         ELSE IF b >= 194 /\ b <= 223
              THEN Len(s) >= 2 /\ Cont(s[2]) /\ Utf8Ok(SubSeq(s, 3, Len(s)))
         ELSE IF b >= 224 /\ b <= 239
              THEN /\ Len(s) >= 3 /\ Cont(s[2]) /\ Cont(s[3])
                   /\ (b = 224 => s[2] >= 160)
                   /\ (b = 237 => s[2] <= 159)
                   /\ Utf8Ok(SubSeq(s, 4, Len(s)))
         ELSE IF b >= 240 /\ b <= 244
              THEN /\ Len(s) >= 4 /\ Cont(s[2]) /\ Cont(s[3]) /\ Cont(s[4])
                   /\ (b = 240 => s[2] >= 144)
                   /\ (b = 244 => s[2] <= 143)
                   /\ Utf8Ok(SubSeq(s, 5, Len(s)))
         ELSE FALSE

\* ------------------------------------------------------------------- trees
Has(t, k) == k \in DOMAIN t
Put(t, k, v) == [x \in (DOMAIN t) \cup {k} |-> IF x = k THEN v ELSE t[x]]
Del(t, k) == [x \in (DOMAIN t) \ {k} |-> t[x]]
EmptyTree == [x \in {} |-> <<>>]

\* --------------------------------------------------------- (de)serialising
RECURSIVE serialize_ids(_)
serialize_ids(list) ==
    IF list = <<>> THEN <<>>
    ELSE u64_to_be_bytes(Head(list)) \o serialize_ids(Tail(list))

\* fn serialize_id_list: 16 bit length, then the ids.
serialize_id_list(list) == u16_to_be_bytes(Len(list)) \o serialize_ids(list)

\* fn string_to_bytes: 16 bit length, then the bytes of the string.
string_to_bytes(string) == u16_to_be_bytes(Len(string)) \o string

\* fn parse_id_list; the permission records the engine writes are well formed.
parse_id_list(bytes) ==
    LET list_len == from_be_bytes(Slice(bytes, 0, 2))
    IN  [i \in 1..list_len |-> from_be_bytes(Slice(bytes, 2 + 8 * (i - 1), 10 + 8 * (i - 1)))]

parse_read_group_ids(bytes) == parse_id_list(bytes)

parse_write_group_ids(bytes) ==
    LET start == 2 + 8 * from_be_bytes(Slice(bytes, 0, 2))
    IN  parse_id_list(SliceFrom(bytes, start))

\* fn parse_db_string: (string, bytes consumed); ok = FALSE models the panic.
parse_db_string(bytes) ==
    IF ~InRange(bytes, 0, 2) THEN [ok |-> FALSE, str |-> <<>>, used |-> 0]
    ELSE LET length == from_be_bytes(Slice(bytes, 0, 2))
         IN  IF InRange(bytes, 2, 2 + length) /\ Utf8Ok(Slice(bytes, 2, 2 + length))
             THEN [ok |-> TRUE, str |-> Slice(bytes, 2, 2 + length), used |-> length + 2]
             ELSE [ok |-> FALSE, str |-> <<>>, used |-> 0]

\* -------------------------------------------------------------- the models
\* struct Dir / struct File of the engine; NoDir / NoFile stand where a call
\* yields no value.
NoDir == [id |-> 0, parent_id |-> 0, owner_id |-> 0, child_ids |-> <<>>, name |-> <<>>,
          read_group_ids |-> <<>>, write_group_ids |-> <<>>]
NoFile == [id |-> 0, parent_id |-> 0, owner_id |-> 0, name |-> <<>>, media_type |-> <<>>,
           read_group_ids |-> <<>>, write_group_ids |-> <<>>]

\* fn entry_to_dir_incomplete: the child ids are read from offset 20 + 8i, the
\* name from offset 18 + 8 * child_number.  ok = FALSE models the panic of an
\* out-of-range slice or of a name that is not UTF-8.
entry_to_dir_incomplete(id, bytes) ==
    IF ~InRange(bytes, 16, 18) THEN [ok |-> FALSE, dir |-> NoDir]
    ELSE LET child_number == from_be_bytes(Slice(bytes, 16, 18))
         IN  IF /\ \A i \in 0..(child_number - 1) : InRange(bytes, 20 + i * 8, 28 + i * 8)
                /\ InRange(bytes, 18 + child_number * 8, Len(bytes))
                /\ Utf8Ok(SliceFrom(bytes, 18 + child_number * 8))
             THEN [ok |-> TRUE,
                   dir |-> [id |-> id,
                            parent_id |-> from_be_bytes(Slice(bytes, 0, 8)),
                            owner_id |-> from_be_bytes(Slice(bytes, 8, 16)),
                            child_ids |-> [i \in 1..child_number |->
                                from_be_bytes(Slice(bytes, 20 + (i - 1) * 8, 28 + (i - 1) * 8))],
                            name |-> SliceFrom(bytes, 18 + child_number * 8),
                            read_group_ids |-> <<>>,
                            write_group_ids |-> <<>>]]
             ELSE [ok |-> FALSE, dir |-> NoDir]

\* The child list as the record stores it (fn get_dirs_childs reads it from
\* offset 18 + 8i); ok = FALSE where the declared count runs past the record.
StoredChilds(bytes) ==
    IF ~InRange(bytes, 16, 18) THEN [ok |-> FALSE, child_ids |-> <<>>]
    ELSE LET child_number == from_be_bytes(Slice(bytes, 16, 18))
         IN  IF InRange(bytes, 18, 18 + 8 * child_number)
             THEN [ok |-> TRUE,
                   child_ids |-> [i \in 1..child_number |->
                       from_be_bytes(Slice(bytes, 18 + (i - 1) * 8, 26 + (i - 1) * 8))]]
             ELSE [ok |-> FALSE, child_ids |-> <<>>]

\* fn get_dirs_childs over given trees: "EntryNotFound", "Panic" or "Ok".
get_dirs_childs(dirs, dir_id) ==
    IF ~Has(dirs, dir_id) THEN [res |-> "EntryNotFound", child_ids |-> <<>>]
    ELSE IF StoredChilds(dirs[dir_id]).ok
         THEN [res |-> "Ok", child_ids |-> StoredChilds(dirs[dir_id]).child_ids]
         ELSE [res |-> "Panic", child_ids |-> <<>>]

\* fn get_dir over given trees: "None", "Some" or "Panic".
get_dir(dirs, perms, id) ==
    IF ~(Has(dirs, id) /\ Has(perms, id)) THEN [res |-> "None", dir |-> NoDir]
    ELSE LET e == entry_to_dir_incomplete(id, dirs[id])
         IN  IF ~e.ok THEN [res |-> "Panic", dir |-> NoDir]
             ELSE [res |-> "Some",
                   dir |-> [e.dir EXCEPT !.read_group_ids = parse_read_group_ids(perms[id]),
                                         !.write_group_ids = parse_write_group_ids(perms[id])]]

\* Mutant of entry_to_file: the media type is looked for behind the bytes of
\* the name, without the two bytes of the name's length.
entry_to_file_short(id, bytes) ==
    LET n == parse_db_string(SliceFrom(bytes, 16))
        m == parse_db_string(SliceFrom(bytes, 16 + Len(n.str)))
    IN  IF n.ok /\ m.ok
        THEN [ok |-> TRUE,
              file |-> [id |-> id,
                        parent_id |-> from_be_bytes(Slice(bytes, 0, 8)),
                        owner_id |-> from_be_bytes(Slice(bytes, 8, 16)),
                        name |-> n.str,
                        media_type |-> m.str,
                        read_group_ids |-> <<>>,
                        write_group_ids |-> <<>>]]
        ELSE [ok |-> FALSE, file |-> NoFile]

\* The file a file record decodes to (no permission lists); ok = FALSE: panic.
entry_to_file(id, bytes) ==
    LET n == parse_db_string(SliceFrom(bytes, 16))
        m == parse_db_string(SliceFrom(bytes, 16 + n.used))
    IN  IF n.ok /\ m.ok
        THEN [ok |-> TRUE,
              file |-> [id |-> id,
                        parent_id |-> from_be_bytes(Slice(bytes, 0, 8)),
                        owner_id |-> from_be_bytes(Slice(bytes, 8, 16)),
                        name |-> n.str,
                        media_type |-> m.str,
                        read_group_ids |-> <<>>,
                        write_group_ids |-> <<>>]]
        ELSE [ok |-> FALSE, file |-> NoFile]

\* fn get_file over given trees: "None", "Some" or "Panic".
get_file(files, perms, id) ==
    IF ~(Has(files, id) /\ Has(perms, id)) THEN [res |-> "None", file |-> NoFile]
    ELSE LET e == entry_to_file(id, files[id])
         IN  IF ~e.ok THEN [res |-> "Panic", file |-> NoFile]
             ELSE [res |-> "Some",
                   file |-> [e.file EXCEPT !.read_group_ids = parse_read_group_ids(perms[id]),
                                           !.write_group_ids = parse_write_group_ids(perms[id])]]

\* fn get_files_by_parent over given trees: the error of get_dirs_childs,
\* "Panic", or "Ok" with the files get_file finds for the ids of the child
\* list, in the order of the list; an id get_file finds nothing for is passed
\* over.
get_files_by_parent(dirs, files, perms, parent_id) ==
    LET c == get_dirs_childs(dirs, parent_id)
        found == [i \in 1..Len(c.child_ids) |-> get_file(files, perms, c.child_ids[i])]
    IN  IF c.res # "Ok" THEN [res |-> c.res, nodes |-> <<>>]
        ELSE IF \E i \in 1..Len(found) : found[i].res = "Panic"
             THEN [res |-> "Panic", nodes |-> <<>>]
        ELSE LET some == SelectSeq(found, LAMBDA f : f.res = "Some")
             IN  [res |-> "Ok", nodes |-> [i \in 1..Len(some) |-> some[i].file]]

\* fn get_dirs_by_parent over given trees, as get_files_by_parent with
\* get_dir.
get_dirs_by_parent(dirs, perms, parent_id) ==
    LET c == get_dirs_childs(dirs, parent_id)
        found == [i \in 1..Len(c.child_ids) |-> get_dir(dirs, perms, c.child_ids[i])]
    IN  IF c.res # "Ok" THEN [res |-> c.res, nodes |-> <<>>]
        ELSE IF \E i \in 1..Len(found) : found[i].res = "Panic"
             THEN [res |-> "Panic", nodes |-> <<>>]
        ELSE LET some == SelectSeq(found, LAMBDA d : d.res = "Some")
             IN  [res |-> "Ok", nodes |-> [i \in 1..Len(some) |-> some[i].dir]]

\* impl From<TransactionError<T>> for Error: what the caller gets when the
\* transaction closure aborted with the error kind `kind`.
FromTransactionError(kind) == "TransactionAbortError"

\* ------------------------------------------------- the calls and their inputs
\* Ids the random generator can return.
NodeIds == 1..MaxId
\* Root directory written by the admin tool's useradd: parent 0, no childs,
\* name "home", and no permission record.
RootId == 1
RootOwner == 7
RootName == <<104, 111, 109, 101>>
RootEntry == u64_to_be_bytes(0) \o u64_to_be_bytes(RootOwner) \o u16_to_be_bytes(0) \o RootName
\* The media type of the files ("t").
MediaTypes == {<<116>>}

\* Result of a transaction closure: kind "Ok" (commit the trees), "Abort"
\* (with the error kind err) or "Panic"; in the last two nothing is written.
TxOk(dirs, files, perms, val) ==
    [kind |-> "Ok", err |-> "", dirs |-> dirs, files |-> files, perms |-> perms, val |-> val]
TxAbort(err) ==
    [kind |-> "Abort", err |-> err, dirs |-> EmptyTree, files |-> EmptyTree,
     perms |-> EmptyTree, val |-> 0]
TxPanic ==
    [kind |-> "Panic", err |-> "", dirs |-> EmptyTree, files |-> EmptyTree,
     perms |-> EmptyTree, val |-> 0]

\* insert_new_file / insert_new_dir, "Increase child-number" .. "Add name of
\* parent": the parent record with child_id appended to its child list.
\* A count of 65535 panics in both build profiles: with overflow checks at
\* child_number += 1, without them child_number wraps to 0 and the slice
\* 18..(18 + (0 - 1) * 8) = 18..10 is out of range.
AddChild(parent_bytes, child_id) ==
    IF ~InRange(parent_bytes, 16, 18) THEN [ok |-> FALSE, bytes |-> <<>>]
    ELSE LET old_number == from_be_bytes(Slice(parent_bytes, 16, 18))
             child_number == old_number + 1
         IN  IF old_number = U16Max \/ ~InRange(parent_bytes, 18, 18 + (child_number - 1) * 8)
             THEN [ok |-> FALSE, bytes |-> <<>>]
             ELSE [ok |-> TRUE,
                   bytes |-> Slice(parent_bytes, 0, 16)
                             \o u16_to_be_bytes(child_number)
                             \o Slice(parent_bytes, 18, 18 + (child_number - 1) * 8)
                             \o u64_to_be_bytes(child_id)
                             \o SliceFrom(parent_bytes, 18 + (child_number - 1) * 8)]

\* remove_file / remove_dir, "Add all childs, except the given one": the loop
\* over i in 0..child_number + 1 that drains the first entry equal to id.
RECURSIVE DrainChild(_, _, _, _)
DrainChild(parent_bytes, id, i, end) ==
    IF i >= end THEN [ok |-> TRUE, bytes |-> parent_bytes]
    ELSE IF ~InRange(parent_bytes, 18 + i * 8, 26 + i * 8) THEN [ok |-> FALSE, bytes |-> <<>>]
    ELSE IF from_be_bytes(Slice(parent_bytes, 18 + i * 8, 26 + i * 8)) = id
         THEN [ok |-> TRUE,
               bytes |-> Slice(parent_bytes, 0, 18 + i * 8) \o SliceFrom(parent_bytes, 26 + i * 8)]
         ELSE DrainChild(parent_bytes, id, i + 1, end)

\* Mutant of RemoveChild: the count is lowered and the entry in the last
\* position is removed, whatever id it holds.
RemoveChildByPosition(parent_bytes, id, checks) ==
    IF ~InRange(parent_bytes, 16, 18) THEN [ok |-> FALSE, bytes |-> <<>>]
    ELSE LET old_number == from_be_bytes(Slice(parent_bytes, 16, 18))
         IN  IF old_number = 0 \/ ~InRange(parent_bytes, 18, 18 + 8 * old_number)
             THEN [ok |-> FALSE, bytes |-> <<>>]
             ELSE [ok |-> TRUE,
                   bytes |-> Slice(parent_bytes, 0, 16) \o u16_to_be_bytes(old_number - 1)
                             \o Slice(parent_bytes, 18, 18 + 8 * (old_number - 1))
                             \o SliceFrom(parent_bytes, 18 + 8 * old_number)]

\* remove_file / remove_dir, "Decrease child-number" .. the loop: the parent
\* record after the removal of id.  A count of 0 panics with overflow checks
\* and wraps to 65535 without them.
RemoveChild(parent_bytes, id, checks) ==
    IF ~InRange(parent_bytes, 16, 18) THEN [ok |-> FALSE, bytes |-> <<>>]
    ELSE LET old_number == from_be_bytes(Slice(parent_bytes, 16, 18))
             child_number == IF old_number = 0 THEN U16Max ELSE old_number - 1
         IN  IF old_number = 0 /\ checks THEN [ok |-> FALSE, bytes |-> <<>>]
             ELSE DrainChild(Slice(parent_bytes, 0, 16) \o u16_to_be_bytes(child_number)
                                 \o SliceFrom(parent_bytes, 18),
                             id, 0, child_number + 1)

\* Byte representation of a new file / of a new directory.
FileData(file) ==
    u64_to_be_bytes(file.parent_id) \o u64_to_be_bytes(file.owner_id)
        \o string_to_bytes(file.name) \o string_to_bytes(file.media_type)
NewDirData(dir) ==
    u64_to_be_bytes(dir.parent_id) \o u64_to_be_bytes(dir.owner_id) \o <<0, 0>> \o dir.name
\* Mutant of PermData: the permission record is written with two empty lists.
PermDataEmpty(node) == serialize_id_list(<<>>) \o serialize_id_list(<<>>)

\* Byte representation of the permissions of a file or directory.
PermData(node) ==
    serialize_id_list(node.read_group_ids) \o serialize_id_list(node.write_group_ids)

\* The transaction closure of insert_new_file, with file_id the id drawn.
InsertNewFileTx(dirs, files, perms, file, file_id) ==
    IF ~Has(dirs, file.parent_id) THEN TxAbort("NoSuchDir")
    ELSE LET p == AddChild(dirs[file.parent_id], file_id)
         IN  IF ~p.ok THEN TxPanic
             ELSE TxOk(Put(dirs, file.parent_id, p.bytes),
                       Put(files, file_id, FileData(file)),
                       Put(perms, file_id, PermData(file)),
                       file_id)

\* Mutant of InsertNewDirTx: the directory and its permissions are written
\* although the parent directory is missing.
InsertNewDirTxOrphan(dirs, files, perms, dir, dir_id) ==
    IF ~Has(dirs, dir.parent_id)
    THEN TxOk(Put(dirs, dir_id, NewDirData(dir)), files, Put(perms, dir_id, PermData(dir)), dir_id)
    ELSE LET p == AddChild(dirs[dir.parent_id], dir_id)
         IN  IF ~p.ok THEN TxPanic
             ELSE TxOk(Put(Put(dirs, dir.parent_id, p.bytes), dir_id, NewDirData(dir)),
                       files,
                       Put(perms, dir_id, PermData(dir)),
                       dir_id)

\* The transaction closure of insert_new_dir, with dir_id the id drawn.
InsertNewDirTx(dirs, files, perms, dir, dir_id) ==
    IF ~Has(dirs, dir.parent_id) THEN TxAbort("NoSuchDir")
    ELSE LET p == AddChild(dirs[dir.parent_id], dir_id)
         IN  IF ~p.ok THEN TxPanic
             ELSE TxOk(Put(Put(dirs, dir.parent_id, p.bytes), dir_id, NewDirData(dir)),
                       files,
                       Put(perms, dir_id, PermData(dir)),
                       dir_id)

\* The transaction closure of update_file.
UpdateFileTx(dirs, files, perms, new_file) ==
    IF ~Has(files, new_file.id) THEN TxAbort("NoSuchFile")
    ELSE TxOk(dirs,
              Put(files, new_file.id, FileData(new_file)),
              Put(perms, new_file.id, PermData(new_file)),
              0)

\* The transaction closure of update_dir.  end_of_childs is computed in u16:
\* 18 + 8 * count panics with overflow checks and wraps without them.
UpdateDirTx(dirs, files, perms, new_dir, checks) ==
    IF ~Has(dirs, new_dir.id) THEN TxAbort("NoSuchDir")
    ELSE LET old_bytes == dirs[new_dir.id] IN
         IF ~InRange(old_bytes, 16, 18) THEN TxPanic
         ELSE LET exact == 18 + 8 * from_be_bytes(Slice(old_bytes, 16, 18))
                  end_of_childs == exact % (U16Max + 1)
              IN  IF (exact > U16Max /\ checks) \/ ~InRange(old_bytes, 18, end_of_childs)
                  THEN TxPanic
                  ELSE TxOk(Put(dirs, new_dir.id,
                                u64_to_be_bytes(new_dir.parent_id)
                                    \o u64_to_be_bytes(new_dir.owner_id)
                                    \o Slice(old_bytes, 18, end_of_childs)
                                    \o new_dir.name),
                            files,
                            Put(perms, new_dir.id, PermData(new_dir)),
                            0)

\* Mutant of RemoveFileTx: a missing parent record is ignored and the file is
\* removed all the same.
RemoveFileTxIgnoreParent(dirs, files, perms, id, checks) ==
    IF ~Has(files, id) THEN TxAbort("NoSuchFile")
    ELSE LET e == entry_to_file(id, files[id]) IN
         IF ~e.ok THEN TxPanic
         ELSE IF ~Has(dirs, e.file.parent_id) THEN TxOk(dirs, Del(files, id), perms, 0)
         ELSE LET p == RemoveChild(dirs[e.file.parent_id], id, checks)
              IN  IF ~p.ok THEN TxPanic
                  ELSE TxOk(Put(dirs, e.file.parent_id, p.bytes), Del(files, id), perms, 0)

\* The transaction closure of remove_file.
RemoveFileTx(dirs, files, perms, id, checks) ==
    IF ~Has(files, id) THEN TxAbort("NoSuchFile")
    ELSE LET e == entry_to_file(id, files[id]) IN
         IF ~e.ok THEN TxPanic
         ELSE IF ~Has(dirs, e.file.parent_id) THEN TxAbort("InconsistentDbState")
         ELSE LET p == RemoveChild(dirs[e.file.parent_id], id, checks)
              IN  IF ~p.ok THEN TxPanic
                  ELSE TxOk(Put(dirs, e.file.parent_id, p.bytes), Del(files, id), perms, 0)

\* remove_dir, "Remove childs from DB": the loop over todo_stack (popped at the
\* end).  Each round removes next_id from the directory tree before it pushes
\* the childs, so the recursion ends.
RECURSIVE RemoveChilds(_, _, _, _)
RemoveChilds(dirs, files, perms, todo_stack) ==
    IF todo_stack = <<>> THEN TxOk(dirs, files, perms, 0)
    ELSE LET next_id == todo_stack[Len(todo_stack)]
             rest == SubSeq(todo_stack, 1, Len(todo_stack) - 1)
         IN  IF Has(dirs, next_id)
             THEN LET e == entry_to_dir_incomplete(next_id, dirs[next_id])
                  IN  IF ~e.ok THEN TxPanic
                      ELSE RemoveChilds(Del(dirs, next_id), files, Del(perms, next_id),
                                        rest \o e.dir.child_ids)
             ELSE RemoveChilds(dirs, Del(files, next_id), Del(perms, next_id), rest)

\* The transaction closure of remove_dir.
RemoveDirTx(dirs, files, perms, id, checks) ==
    IF ~Has(dirs, id) THEN TxAbort("NoSuchDir")
    ELSE LET e == entry_to_dir_incomplete(id, dirs[id]) IN
         IF ~e.ok THEN TxPanic
         ELSE IF ~Has(dirs, e.dir.parent_id) THEN TxAbort("NoSuchDir")
         ELSE LET p == RemoveChild(dirs[e.dir.parent_id], id, checks)
              IN  IF ~p.ok THEN TxPanic
                  ELSE RemoveChilds(Put(dirs, e.dir.parent_id, p.bytes), files, perms,
                                    e.dir.child_ids)

\* What a call leaves behind: the trees, the returned error kind ("Ok" for
\* success, "Panic" for a panic) and the kind the closure aborted with.
Outcome(dirs, files, perms, ret, abort, val) ==
    [dirs |-> dirs, files |-> files, perms |-> perms, ret |-> ret, abort |-> abort, val |-> val]

\* `.transaction(..)?` / `.map_err(Error::from)?`: commit on Ok; on Abort and
\* on a panic nothing is written.
Transact(t, dirs, files, perms) ==
    IF t.kind = "Ok" THEN Outcome(t.dirs, t.files, t.perms, "Ok", "", t.val)
    ELSE IF t.kind = "Abort"
         THEN Outcome(dirs, files, perms, FromTransactionError(t.err), t.err, 0)
         ELSE Outcome(dirs, files, perms, "Panic", "", 0)

insert_new_file(dirs, files, perms, file, file_id) ==
    IF Len(file.read_group_ids) > U16Max \/ Len(file.write_group_ids) > U16Max
    THEN Outcome(dirs, files, perms, "BadCall", "", 0)
    ELSE Transact(InsertNewFileTx(dirs, files, perms, file, file_id), dirs, files, perms)

insert_new_dir(dirs, files, perms, dir, dir_id) ==
    Transact(InsertNewDirTx(dirs, files, perms, dir, dir_id), dirs, files, perms)

update_file(dirs, files, perms, new_file) ==
    Transact(UpdateFileTx(dirs, files, perms, new_file), dirs, files, perms)

update_dir(dirs, files, perms, new_dir, checks) ==
    Transact(UpdateDirTx(dirs, files, perms, new_dir, checks), dirs, files, perms)

\* remove_file: the transaction, then the permission record is removed.
remove_file(dirs, files, perms, id, checks) ==
    LET o == Transact(RemoveFileTx(dirs, files, perms, id, checks), dirs, files, perms)
    IN  IF o.ret = "Ok" THEN [o EXCEPT !.perms = Del(o.perms, id)] ELSE o

\* remove_dir: the root check, the transaction, then the permission record of
\* the directory is removed.
remove_dir(dirs, files, perms, id, checks) ==
    IF ~Has(dirs, id) THEN Outcome(dirs, files, perms, "NoSuchDir", "", 0)
    ELSE LET e == entry_to_dir_incomplete(id, dirs[id]) IN
         IF ~e.ok THEN Outcome(dirs, files, perms, "Panic", "", 0)
         ELSE IF e.dir.parent_id = 0 THEN Outcome(dirs, files, perms, "ForbiddenAction", "", 0)
         ELSE LET o == Transact(RemoveDirTx(dirs, files, perms, id, checks), dirs, files, perms)
              IN  IF o.ret = "Ok" THEN [o EXCEPT !.perms = Del(o.perms, id)] ELSE o

\* add_readable_group / add_writeable_group: second_list_start, the offset of
\* the write list, 2 + count * 8 evaluated in u16: it panics with overflow
\* checks and wraps without them.  ok = FALSE models the panic.
SecondListStart(old_bytes, checks) ==
    IF ~InRange(old_bytes, 0, 2) THEN [ok |-> FALSE, at |-> 0]
    ELSE LET exact == 2 + from_be_bytes(Slice(old_bytes, 0, 2)) * 8
         IN  IF exact > U16Max /\ checks THEN [ok |-> FALSE, at |-> 0]
             ELSE [ok |-> TRUE, at |-> exact % (U16Max + 1)]

\* 1 + count in u16 ("TODO: Handle overflow").
IncreasedLen(count, checks) ==
    IF count = U16Max /\ checks THEN [ok |-> FALSE, len |-> 0]
    ELSE [ok |-> TRUE, len |-> (count + 1) % (U16Max + 1)]

\* Number of times x occurs in seq.
RECURSIVE Occurrences(_, _)
Occurrences(seq, x) ==
    IF seq = <<>> THEN 0
    ELSE (IF Head(seq) = x THEN 1 ELSE 0) + Occurrences(Tail(seq), x)

\* Mutant of AddReadableGroupTx: a group the read list already holds is not
\* added a second time.
AddReadableGroupTxOnce(dirs, files, perms, fs_node_id, group_id, checks) ==
    IF ~Has(perms, fs_node_id) THEN TxAbort("NoSuchTarget")
    ELSE LET old_bytes == perms[fs_node_id]
             start == SecondListStart(old_bytes, checks)
         IN  IF ~start.ok THEN TxPanic
             ELSE LET new_len == IncreasedLen(from_be_bytes(Slice(old_bytes, 0, 2)), checks)
                  IN  IF ~new_len.ok \/ ~InRange(old_bytes, 2, start.at) THEN TxPanic
                      ELSE IF Occurrences(parse_read_group_ids(old_bytes), group_id) > 0
                           THEN TxOk(dirs, files, perms, 0)
                      ELSE TxOk(dirs, files,
                                Put(perms, fs_node_id,
                                    u16_to_be_bytes(new_len.len)
                                        \o Slice(old_bytes, 2, start.at)
                                        \o u64_to_be_bytes(group_id)
                                        \o SliceFrom(old_bytes, start.at)),
                                0)

\* The transaction closure of add_readable_group.
AddReadableGroupTx(dirs, files, perms, fs_node_id, group_id, checks) ==
    IF ~Has(perms, fs_node_id) THEN TxAbort("NoSuchTarget")
    ELSE LET old_bytes == perms[fs_node_id] IN
         IF ~InRange(old_bytes, 0, 2) THEN TxPanic
         ELSE LET new_len == IncreasedLen(from_be_bytes(Slice(old_bytes, 0, 2)), checks)
                  start == SecondListStart(old_bytes, checks)
              IN  IF ~new_len.ok \/ ~start.ok \/ ~InRange(old_bytes, 2, start.at) THEN TxPanic
                  ELSE TxOk(dirs, files,
                            Put(perms, fs_node_id,
                                u16_to_be_bytes(new_len.len)
                                    \o Slice(old_bytes, 2, start.at)
                                    \o u64_to_be_bytes(group_id)
                                    \o SliceFrom(old_bytes, start.at)),
                            0)

\* Mutant of AddWriteableGroupTx: the count that is increased is the one at
\* the start of the record, not the one at second_list_start.
AddWriteableGroupTxFirstCount(dirs, files, perms, fs_node_id, group_id, checks) ==
    IF ~Has(perms, fs_node_id) THEN TxAbort("NoSuchTarget")
    ELSE LET old_bytes == perms[fs_node_id] IN
         IF ~InRange(old_bytes, 0, 2) THEN TxPanic
         ELSE LET new_len == IncreasedLen(from_be_bytes(Slice(old_bytes, 0, 2)), checks)
              IN  IF ~new_len.ok THEN TxPanic
                  ELSE TxOk(dirs, files,
                            Put(perms, fs_node_id,
                                u16_to_be_bytes(new_len.len) \o SliceFrom(old_bytes, 2)
                                    \o u64_to_be_bytes(group_id)),
                            0)

\* The transaction closure of add_writeable_group.
AddWriteableGroupTx(dirs, files, perms, fs_node_id, group_id, checks) ==
    IF ~Has(perms, fs_node_id) THEN TxAbort("NoSuchTarget")
    ELSE LET old_bytes == perms[fs_node_id]
             start == SecondListStart(old_bytes, checks)
         IN  IF ~start.ok \/ ~InRange(old_bytes, start.at, start.at + 2) THEN TxPanic
             ELSE LET new_len == IncreasedLen(
                                     from_be_bytes(Slice(old_bytes, start.at, start.at + 2)), checks)
                  IN  IF ~new_len.ok THEN TxPanic
                      ELSE TxOk(dirs, files,
                                Put(perms, fs_node_id,
                                    Slice(old_bytes, 0, start.at)
                                        \o u16_to_be_bytes(new_len.len)
                                        \o SliceFrom(old_bytes, start.at + 2)
                                        \o u64_to_be_bytes(group_id)),
                                0)

add_readable_group(dirs, files, perms, fs_node_id, group_id, checks) ==
    Transact(AddReadableGroupTx(dirs, files, perms, fs_node_id, group_id, checks),
             dirs, files, perms)

add_writeable_group(dirs, files, perms, fs_node_id, group_id, checks) ==
    Transact(AddWriteableGroupTx(dirs, files, perms, fs_node_id, group_id, checks),
             dirs, files, perms)

\* ------------------------------------------------------ the user database
\* struct Group; NoGroup stands where a call yields no group.
NoGroup == [id |-> 0, name |-> <<>>, member_ids |-> <<>>, admin_ids |-> <<>>]

\* fn get_group over a given group tree: "None", "Some" or "Panic".  index
\* stands behind the member ids when the admin count is read, and is not moved
\* over the two bytes of that count before the admin ids and the name are read.
get_group(groups, group_id) ==
    IF ~Has(groups, group_id) THEN [res |-> "None", group |-> NoGroup]
    ELSE LET bytes == groups[group_id] IN
         IF ~InRange(bytes, 0, 2) THEN [res |-> "Panic", group |-> NoGroup]
         ELSE LET member_count == from_be_bytes(Slice(bytes, 0, 2))
                  index == 2 + 8 * member_count
              IN  IF ~InRange(bytes, 2, index + 2) THEN [res |-> "Panic", group |-> NoGroup]
                  ELSE LET admin_count == from_be_bytes(Slice(bytes, index, index + 2))
                           name_start == index + 8 * admin_count
                       IN  IF ~InRange(bytes, index, name_start)
                              \/ ~Utf8Ok(SliceFrom(bytes, name_start))
                           THEN [res |-> "Panic", group |-> NoGroup]
                           ELSE [res |-> "Some",
                                 group |-> [id |-> group_id,
                                            name |-> SliceFrom(bytes, name_start),
                                            member_ids |-> [i \in 1..member_count |->
                                                from_be_bytes(Slice(bytes, 2 + 8 * (i - 1),
                                                                    10 + 8 * (i - 1)))],
                                            admin_ids |-> [i \in 1..admin_count |->
                                                from_be_bytes(Slice(bytes, index + 8 * (i - 1),
                                                                    index + 8 * i))]]]

\* Result of a transaction closure over the user database: as TxOk, TxAbort
\* and TxPanic, with u the seven trees.
UTxOk(u, val) == [kind |-> "Ok", err |-> "", u |-> u, val |-> val]
UTxAbort(err) == [kind |-> "Abort", err |-> err, u |-> <<>>, val |-> 0]
UTxPanic == [kind |-> "Panic", err |-> "", u |-> <<>>, val |-> 0]

\* What a call on the user database leaves behind.
UOutcome(u, ret, abort, val) == [u |-> u, ret |-> ret, abort |-> abort, val |-> val]

\* `.transaction(..)?` on the user database.
UTransact(t, u) ==
    IF t.kind = "Ok" THEN UOutcome(t.u, "Ok", "", t.val)
    ELSE IF t.kind = "Abort" THEN UOutcome(u, FromTransactionError(t.err), t.err, 0)
    ELSE UOutcome(u, "Panic", "", 0)

\* fn insert_user: the four user trees are written, whatever they hold.
insert_user(u, user) ==
    UOutcome([u EXCEPT !.name_id = Put(u.name_id, user.name, u64_to_be_bytes(user.id)),
                       !.id_name = Put(u.id_name, user.id, user.name),
                       !.pwd = Put(u.pwd, user.id, user.pwd_hash),
                       !.rootdir = Put(u.rootdir, user.id, u64_to_be_bytes(user.root_dir_id))],
             "Ok", "", 0)

\* "Prepare data to insert": the record of a group.
GroupData(group) ==
    u16_to_be_bytes(Len(group.member_ids)) \o serialize_ids(group.member_ids)
        \o u16_to_be_bytes(Len(group.admin_ids)) \o serialize_ids(group.admin_ids)
        \o group.name

\* "Make sure the user is not already in the list": TRUE when one of the
\* eight byte entries of the list equals the group id.
ListsGroup(group_list_bytes, group_id) ==
    \E i \in 0..((Len(group_list_bytes) - 1) \div 8) :
        /\ 8 * i < Len(group_list_bytes)
        /\ InRange(group_list_bytes, 8 * i, 8 * i + 8)
        /\ Slice(group_list_bytes, 8 * i, 8 * i + 8) = u64_to_be_bytes(group_id)

\* "Insert reference into users groups": the loop over member_ids chained
\* with admin_ids.  A user without an entry in user_groups aborts the
\* transaction; the entry that is appended is the id of the user.
RECURSIVE InsertReferences(_, _, _, _)
InsertReferences(u, user_ids, group_id, val) ==
    IF user_ids = <<>> THEN UTxOk(u, val)
    ELSE LET user_id == Head(user_ids) IN
         IF ~Has(u.user_groups, user_id) THEN UTxAbort("NoSuchTarget")
         ELSE IF ListsGroup(u.user_groups[user_id], group_id)
              THEN InsertReferences(u, Tail(user_ids), group_id, val)
         ELSE IF Len(u.user_groups[user_id]) % 8 # 0 THEN UTxPanic
         ELSE InsertReferences(
                  [u EXCEPT !.user_groups = Put(u.user_groups, user_id,
                                                u.user_groups[user_id] \o u64_to_be_bytes(user_id))],
                  Tail(user_ids), group_id, val)

\* Mutant of InsertNewGroupTx: the name index is not looked at.
InsertNewGroupTxAnyName(u, group, group_id) ==
    IF Len(group.member_ids) > U16Max \/ Len(group.admin_ids) > U16Max THEN UTxAbort("BadCall")
    ELSE InsertReferences(
             [u EXCEPT !.groups = Put(u.groups, group_id, GroupData(group)),
                       !.gname_id = Put(u.gname_id, group.name, u64_to_be_bytes(group_id))],
             group.member_ids \o group.admin_ids, group_id, group_id)

\* The transaction closure of insert_new_group, with group_id the id drawn.
InsertNewGroupTx(u, group, group_id) ==
    IF Has(u.gname_id, group.name) THEN UTxAbort("TargetExists")
    ELSE IF Len(group.member_ids) > U16Max \/ Len(group.admin_ids) > U16Max
         THEN UTxAbort("BadCall")
    ELSE InsertReferences(
             [u EXCEPT !.groups = Put(u.groups, group_id, GroupData(group)),
                       !.gname_id = Put(u.gname_id, group.name, u64_to_be_bytes(group_id))],
             group.member_ids \o group.admin_ids, group_id, group_id)

\* The transaction closure of insert_group.
InsertGroupTx(u, group) ==
    IF Has(u.gname_id, group.name) /\ u.gname_id[group.name] # u64_to_be_bytes(group.id)
    THEN UTxAbort("TargetExists")
    ELSE IF Len(group.member_ids) > U16Max \/ Len(group.admin_ids) > U16Max
         THEN UTxAbort("BadCall")
    ELSE InsertReferences(
             [u EXCEPT !.groups = Put(u.groups, group.id, GroupData(group)),
                       !.gname_id = Put(u.gname_id, group.name, u64_to_be_bytes(group.id))],
             group.member_ids \o group.admin_ids, group.id, 0)

insert_new_group(u, group, group_id) == UTransact(InsertNewGroupTx(u, group, group_id), u)

insert_group(u, group) == UTransact(InsertGroupTx(u, group), u)

\* struct User; NoUser stands where a call yields no user.
NoUser == [id |-> 0, name |-> <<>>, pwd_hash |-> <<>>, root_dir_id |-> 0, group_ids |-> <<>>]

\* The loop of get_user over the user's entry of user_groups: each eight
\* bytes are read as the id of a group, the group is fetched and expected to
\* exist, and the id is kept when the group's member_ids contain that same
\* id.  "Panic" when the entry does not split into eight byte ids, or a group
\* is missing or cannot be parsed.
UserGroupIds(u, bytes) ==
    LET n == (Len(bytes) + 7) \div 8
        id(i) == from_be_bytes(Slice(bytes, 8 * (i - 1), 8 * i))
    IN  IF Len(bytes) % 8 # 0
           \/ \E i \in 1..n : get_group(u.groups, id(i)).res # "Some"
        THEN [res |-> "Panic", ids |-> <<>>]
        ELSE [res |-> "Some",
              ids |-> SelectSeq([i \in 1..n |-> id(i)],
                                LAMBDA g : \E j \in DOMAIN get_group(u.groups, g).group.member_ids :
                                               get_group(u.groups, g).group.member_ids[j] = g)]

\* fn get_user over the user database u: "None", "Some" or "Panic".
get_user(u, user_id) ==
    IF ~Has(u.id_name, user_id) THEN [res |-> "None", user |-> NoUser]
    ELSE IF ~Utf8Ok(u.id_name[user_id]) THEN [res |-> "Panic", user |-> NoUser]
    ELSE IF ~Has(u.pwd, user_id) THEN [res |-> "None", user |-> NoUser]
    ELSE IF ~Utf8Ok(u.pwd[user_id]) THEN [res |-> "Panic", user |-> NoUser]
    ELSE IF ~Has(u.rootdir, user_id) THEN [res |-> "None", user |-> NoUser]
    ELSE IF Len(u.rootdir[user_id]) # 8 THEN [res |-> "Panic", user |-> NoUser]
    ELSE LET g == IF Has(u.user_groups, user_id)
                  THEN UserGroupIds(u, u.user_groups[user_id])
                  ELSE [res |-> "Some", ids |-> <<>>]
         IN  IF g.res = "Panic" THEN [res |-> "Panic", user |-> NoUser]
             ELSE [res |-> "Some",
                   user |-> [id |-> user_id, name |-> u.id_name[user_id],
                             pwd_hash |-> u.pwd[user_id],
                             root_dir_id |-> from_be_bytes(u.rootdir[user_id]),
                             group_ids |-> g.ids]]

\* fn get_userid_by_name: the id the name index holds for the name, 0 for
\* None, and "Panic" when the value is not eight bytes.
get_userid_by_name(u, username) ==
    IF ~Has(u.name_id, username) THEN [res |-> "None", id |-> 0]
    ELSE IF Len(u.name_id[username]) # 8 THEN [res |-> "Panic", id |-> 0]
    ELSE [res |-> "Some", id |-> from_be_bytes(u.name_id[username])]

\* --------------------------------------------------------- the session store
\* struct UserSession (creation_date as the seconds of its timestamp);
\* NoSession stands where a call yields no session.
NoSession == [session_id |-> 0, user_id |-> 0, creation_date |-> 0]

\* The key of user_session_tree: user_id and session_id, eight bytes each.
user_session_key(user_id, session_id) == u64_to_be_bytes(user_id) \o u64_to_be_bytes(session_id)

\* What a call on the session store leaves behind: s is the two trees.
SOutcome(s, ret, val) == [s |-> s, ret |-> ret, val |-> val]

\* fn get_user_session over the session trees s: "None", "Some" or "Panic".
get_user_session(s, session_id) ==
    IF ~Has(s.sessions, session_id) THEN [res |-> "None", session |-> NoSession]
    ELSE LET bytes == s.sessions[session_id] IN
         IF ~InRange(bytes, 8, 16) THEN [res |-> "Panic", session |-> NoSession]
         ELSE [res |-> "Some",
               session |-> [session_id |-> session_id,
                            user_id |-> from_be_bytes(Slice(bytes, 0, 8)),
                            creation_date |-> from_be_bytes(Slice(bytes, 8, 16))]]

\* "Insert data" of create_user_session: the transaction that writes the
\* session record and the membership marker under the session id drawn
\* before, whatever the trees hold by now.
StoreSession(s, user_id, session_id, creation_date) ==
    SOutcome([sessions |-> Put(s.sessions, session_id,
                               u64_to_be_bytes(user_id) \o u64_to_be_bytes(creation_date)),
              user_sessions |-> Put(s.user_sessions,
                                    user_session_key(user_id, session_id), <<>>)],
             "Ok", [session_id |-> session_id, user_id |-> user_id,
                    creation_date |-> creation_date])

\* Mutant of remove_user_session: the membership marker stays.
remove_user_session_record_only(s, session_id) ==
    IF ~Has(s.sessions, session_id) THEN SOutcome(s, "Ok", 0)
    ELSE SOutcome([s EXCEPT !.sessions = Del(s.sessions, session_id)], "Ok", 0)

\* fn remove_user_session: the record is removed, and the marker under the
\* user id the record starts with.
remove_user_session(s, session_id) ==
    IF ~Has(s.sessions, session_id) THEN SOutcome(s, "Ok", 0)
    ELSE LET v == s.sessions[session_id] IN
         IF ~InRange(v, 0, 8) THEN SOutcome(s, "Panic", 0)
         ELSE SOutcome([sessions |-> Del(s.sessions, session_id),
                        user_sessions |-> Del(s.user_sessions,
                                              Slice(v, 0, 8) \o u64_to_be_bytes(session_id))],
                       "Ok", 0)

\* scan_prefix(user_id.to_be_bytes()): the keys of user_session_tree that
\* start with the user id, in the order of the tree (keys are sixteen bytes,
\* so the order is that of the session ids).
RECURSIVE InKeyOrder(_)
InKeyOrder(keys) ==
    IF keys = {} THEN <<>>
    ELSE LET k == CHOOSE x \in keys :
                      \A y \in keys : from_be_bytes(SliceFrom(x, 8)) <= from_be_bytes(SliceFrom(y, 8))
         IN  <<k>> \o InKeyOrder(keys \ {k})

scan_prefix(user_sessions, user_id) ==
    InKeyOrder({k \in DOMAIN user_sessions :
                   InRange(k, 0, 8) /\ Slice(k, 0, 8) = u64_to_be_bytes(user_id)})

\* The filter_fn passed to filter_user_sessions, given by the session ids and
\* the earliest creation date it returns true for.
filter_fn(p, session) == session.session_id \in p.ids /\ session.creation_date >= p.since

\* The loop of filter_user_sessions over the keys scanned.
RECURSIVE FilterSessions(_, _, _)
FilterSessions(s, keys, p) ==
    IF keys = <<>> THEN SOutcome(s, "Ok", 0)
    ELSE LET key == Head(keys) IN
         IF ~Has(s.user_sessions, key) THEN FilterSessions(s, Tail(keys), p)
         ELSE IF ~InRange(key, 8, 16) THEN SOutcome(s, "Panic", 0)
         ELSE LET session_id == from_be_bytes(Slice(key, 8, 16))
                  session == get_user_session(s, session_id)
              IN  IF session.res # "Some" THEN SOutcome(s, "Panic", 0)
                  ELSE IF filter_fn(p, session.session)
                       THEN FilterSessions(s, Tail(keys), p)
                  ELSE LET r == remove_user_session(s, session_id)
                       IN  IF r.ret # "Ok" THEN r
                           ELSE FilterSessions(r.s, Tail(keys), p)

\* Mutant of filter_user_sessions: the loop ends after the first key.
filter_user_sessions_first(s, user_id, p) ==
    LET keys == scan_prefix(s.user_sessions, user_id)
    IN  FilterSessions(s, IF keys = <<>> THEN keys ELSE <<Head(keys)>>, p)

filter_user_sessions(s, user_id, p) ==
    FilterSessions(s, scan_prefix(s.user_sessions, user_id), p)

\* ------------------------------------------------------------ state machine
\* Arguments the calls are made with.  Inserts: the parent is drawn from
\* NodeIds, the owner is the root's owner, and the name comes with the group
\* lists: "a" with none, "ab" with read group 5 and write groups 6, 5.
InsertArgs == {[name |-> <<97>>, perm |-> <<<<>>, <<>>>>],
               [name |-> <<97, 98>>, perm |-> <<<<5>>, <<6, 5>>>>]}
\* Updates: the new parent (0 makes a root), the new owner, and the name with
\* the child_ids field and the group lists of the value passed.
ParentArgs == {0, RootId}
NewOwnerIds == {8}
UpdateArgs == {[name |-> <<97>>, child_ids |-> <<>>, perm |-> <<<<5>>, <<6, 5>>>>],
               [name |-> <<97, 98>>, child_ids |-> <<9>>, perm |-> <<<<>>, <<>>>>]}

FileArg(id, parent_id, owner_id, name, media_type, perm) ==
    [id |-> id, parent_id |-> parent_id, owner_id |-> owner_id, name |-> name,
     media_type |-> media_type, read_group_ids |-> perm[1], write_group_ids |-> perm[2]]
DirArg(id, parent_id, owner_id, child_ids, name, perm) ==
    [id |-> id, parent_id |-> parent_id, owner_id |-> owner_id, child_ids |-> child_ids,
     name |-> name, read_group_ids |-> perm[1], write_group_ids |-> perm[2]]

Trees == [dirs |-> dir_tree, files |-> file_tree, perms |-> permissions_tree]

\* The user the admin tool's useradd stored together with the root directory:
\* name "u", a password hash ("$"), and the root directory as root_dir_id.
RootUserName == <<117>>
RootPwdHash == <<36>>

\* The seven trees of the user database.
UserTrees ==
    [name_id |-> username_id_tree, id_name |-> userid_name_tree, pwd |-> userid_pwd_tree,
     rootdir |-> userid_rootdir_tree, user_groups |-> user_groups_tree,
     groups |-> group_tree, gname_id |-> groupname_id_tree]

\* The threads, and a thread that is in no call.
Workers == {1, 2}
IdleWorker == [pc |-> "idle", op |-> "", arg |-> NoDir, seen |-> 0, id |-> 0, ret |-> ""]
\* A thread that is in no call of create_user_session.
IdleLogin == [pc |-> "idle", user_id |-> 0, session_id |-> 0, creation_date |-> 0]

Init ==
    /\ dir_tree = (RootId :> RootEntry)
    /\ file_tree = EmptyTree
    /\ permissions_tree = EmptyTree
    /\ overflow_checks \in BOOLEAN
    /\ pre = [dirs |-> (RootId :> RootEntry), files |-> EmptyTree, perms |-> EmptyTree]
    /\ last = [op |-> "init", id |-> 0, arg |-> NoDir, ret |-> "Ok", abort |-> ""]
    /\ ops = 0
    /\ username_id_tree = (RootUserName :> u64_to_be_bytes(RootOwner))
    /\ userid_name_tree = (RootOwner :> RootUserName)
    /\ userid_pwd_tree = (RootOwner :> RootPwdHash)
    /\ userid_rootdir_tree = (RootOwner :> u64_to_be_bytes(RootId))
    /\ user_groups_tree = EmptyTree
    /\ group_tree = EmptyTree
    /\ groupname_id_tree = EmptyTree
    /\ pre_user = [name_id |-> (RootUserName :> u64_to_be_bytes(RootOwner)),
                   id_name |-> (RootOwner :> RootUserName),
                   pwd |-> (RootOwner :> RootPwdHash),
                   rootdir |-> (RootOwner :> u64_to_be_bytes(RootId)),
                   user_groups |-> EmptyTree, groups |-> EmptyTree, gname_id |-> EmptyTree]
    /\ workers = [w \in Workers |-> IdleWorker]
    /\ session_tree = EmptyTree
    /\ user_session_tree = EmptyTree
    /\ pre_session = [sessions |-> EmptyTree, user_sessions |-> EmptyTree]
    /\ logins = [w \in Workers |-> IdleLogin]
    /\ utc_now = 0

\* A root directory that lists child_number childs: files with the id 9 that
\* were inserted and then removed with the admin tool's filerm, which leaves
\* the child list of the parent as it is.
RootEntryWithChilds(child_number) ==
    u64_to_be_bytes(0) \o u64_to_be_bytes(RootOwner) \o u16_to_be_bytes(child_number)
        \o [i \in 1..(8 * child_number) |-> IF i % 8 = 0 THEN 9 ELSE 0] \o RootName

\* One call of the engine: o is its outcome on the current trees.
Call(op, id, arg, o) ==
    /\ ops < MaxOps
    /\ dir_tree' = o.dirs
    /\ file_tree' = o.files
    /\ permissions_tree' = o.perms
    /\ pre' = Trees
    /\ last' = [op |-> op, id |-> id, arg |-> arg, ret |-> o.ret, abort |-> o.abort]
    /\ ops' = ops + 1
    /\ UNCHANGED <<overflow_checks, user_vars, pre_user, workers, session_vars>>

\* Ids the random generator can draw (all of u64 in the code).
GeneratedIds == 0..MaxId

\* Mutant of FreshIds: the generator's loop looks at the directory tree only.
FreshIdsDirsOnly == {n \in GeneratedIds : ~(Has(dir_tree, n) \/ n = 0)}

\* Ids the generator's loop can end on: the loop draws again while the id is a
\* key of the directory tree or of the file tree, or is 0.
FreshIds == {n \in GeneratedIds : ~(Has(dir_tree, n) \/ Has(file_tree, n) \/ n = 0)}

InsertNewFile ==
    \E parent_id \in NodeIds, a \in InsertArgs, media_type \in MediaTypes, file_id \in FreshIds :
        LET file == FileArg(0, parent_id, RootOwner, a.name, media_type, a.perm)
            o == insert_new_file(dir_tree, file_tree, permissions_tree, file, file_id)
        IN  Call("insert_new_file", o.val, file, o)

InsertNewDir ==
    \E parent_id \in NodeIds, a \in InsertArgs, dir_id \in FreshIds :
        LET dir == DirArg(0, parent_id, RootOwner, <<>>, a.name, a.perm)
            o == insert_new_dir(dir_tree, file_tree, permissions_tree, dir, dir_id)
        IN  Call("insert_new_dir", o.val, dir, o)

UpdateFile ==
    \E id \in NodeIds, parent_id \in ParentArgs, owner_id \in NewOwnerIds, a \in UpdateArgs,
       media_type \in MediaTypes :
        LET new_file == FileArg(id, parent_id, owner_id, a.name, media_type, a.perm)
        IN  Call("update_file", id, new_file,
                 update_file(dir_tree, file_tree, permissions_tree, new_file))

UpdateDir ==
    \E id \in NodeIds, parent_id \in ParentArgs, owner_id \in NewOwnerIds, a \in UpdateArgs :
        LET new_dir == DirArg(id, parent_id, owner_id, a.child_ids, a.name, a.perm)
        IN  Call("update_dir", id, new_dir,
                 update_dir(dir_tree, file_tree, permissions_tree, new_dir, overflow_checks))

RemoveFile ==
    \E id \in NodeIds :
        Call("remove_file", id, NoFile,
             remove_file(dir_tree, file_tree, permissions_tree, id, overflow_checks))

RemoveDir ==
    \E id \in NodeIds :
        Call("remove_dir", id, NoDir,
             remove_dir(dir_tree, file_tree, permissions_tree, id, overflow_checks))

\* Groups that are given read or write permission.
GroupIds == {5, 6}

AddReadableGroup ==
    \E fs_node_id \in NodeIds, group_id \in GroupIds :
        Call("add_readable_group", fs_node_id, [group_id |-> group_id],
             add_readable_group(dir_tree, file_tree, permissions_tree, fs_node_id, group_id,
                                overflow_checks))

AddWriteableGroup ==
    \E fs_node_id \in NodeIds, group_id \in GroupIds :
        Call("add_writeable_group", fs_node_id, [group_id |-> group_id],
             add_writeable_group(dir_tree, file_tree, permissions_tree, fs_node_id, group_id,
                                 overflow_checks))

Next ==
    \/ InsertNewFile
    \/ InsertNewDir
    \/ UpdateFile
    \/ UpdateDir
    \/ RemoveFile
    \/ RemoveDir

Spec == Init /\ [][Next]_vars

\* The engine with the four calls that build and prune the tree.
NextTree ==
    \/ InsertNewFile
    \/ InsertNewDir
    \/ RemoveFile
    \/ RemoveDir

SpecTree == Init /\ [][NextTree]_vars

\* Inserts into a root directory without childs, with one child, or with as
\* many childs as the count field can hold: the call is applied to a database
\* that holds this root directory only, and what it returns and what it
\* leaves of the directory is recorded in last.
ChildNumbers == {0, 1, U16Max}
RootEntries == [child_number \in ChildNumbers |-> RootEntryWithChilds(child_number)]

InsertIntoFullDir ==
    \E child_number \in ChildNumbers, op \in {"insert_new_file", "insert_new_dir"},
       a \in InsertArgs, id \in GeneratedIds \ {0, RootId} :
        LET dirs == (RootId :> RootEntries[child_number])
            o == IF op = "insert_new_file"
                 THEN insert_new_file(dirs, EmptyTree, EmptyTree,
                                      FileArg(0, RootId, RootOwner, a.name, <<116>>, a.perm), id)
                 ELSE insert_new_dir(dirs, EmptyTree, EmptyTree,
                                     DirArg(0, RootId, RootOwner, <<>>, a.name, a.perm), id)
            stored == o.dirs[RootId]
        IN  /\ ops < MaxOps
            /\ last' = [op |-> op, id |-> o.val,
                        arg |-> [parent_id |-> RootId, name |-> a.name,
                                 child_number |-> child_number,
                                 unchanged |-> stored = dirs[RootId],
                                 stored_number |-> from_be_bytes(Slice(stored, 16, 18)),
                                 stored_childs |-> (Len(stored) - 18 - Len(RootName)) \div 8,
                                 last_child |-> from_be_bytes(Slice(stored,
                                     Len(stored) - Len(RootName) - 8, Len(stored) - Len(RootName)))],
                        ret |-> o.ret, abort |-> o.abort]
            /\ ops' = ops + 1
            /\ UNCHANGED <<fs_vars, overflow_checks, pre, user_vars, pre_user, workers, session_vars>>

NextFull == InsertIntoFullDir

SpecFull == Init /\ [][NextFull]_vars

\* The engine with the calls that write permission records.
NextPerm ==
    \/ InsertNewFile
    \/ InsertNewDir
    \/ UpdateFile
    \/ AddReadableGroup
    \/ AddWriteableGroup

SpecPerm == Init /\ [][NextPerm]_vars

\* One call of the user database: o is its outcome on the current trees.
UserCall(op, id, arg, o) ==
    /\ ops < MaxOps
    /\ username_id_tree' = o.u.name_id
    /\ userid_name_tree' = o.u.id_name
    /\ userid_pwd_tree' = o.u.pwd
    /\ userid_rootdir_tree' = o.u.rootdir
    /\ user_groups_tree' = o.u.user_groups
    /\ group_tree' = o.u.groups
    /\ groupname_id_tree' = o.u.gname_id
    /\ pre_user' = UserTrees
    /\ last' = [op |-> op, id |-> id, arg |-> arg, ret |-> o.ret, abort |-> o.abort]
    /\ ops' = ops + 1
    /\ UNCHANGED <<fs_vars, overflow_checks, pre, workers, session_vars>>

\* Users that are stored: the first user again, or user 8, under the name
\* "u" or "v".
UserIds == {RootOwner, 8}
UserNames == {RootUserName, <<118>>}
\* Groups that are stored: the name "g" or "h", with the member_ids and the
\* admin_ids; user 9 is never stored.
GroupNames == {<<103>>, <<104>>}
GroupLists == {[member_ids |-> <<>>, admin_ids |-> <<>>],
               [member_ids |-> <<8>>, admin_ids |-> <<>>],
               [member_ids |-> <<>>, admin_ids |-> <<8>>],
               [member_ids |-> <<8>>, admin_ids |-> <<9>>]}

\* Ids the generator's loop of insert_new_group can end on: the loop draws
\* again while the id is a key of the group tree or of user_groups.
FreshGroupIds == {n \in GeneratedIds : ~(Has(group_tree, n) \/ Has(user_groups_tree, n))}

InsertUser ==
    \E id \in UserIds, name \in UserNames :
        LET user == [id |-> id, name |-> name, pwd_hash |-> RootPwdHash, root_dir_id |-> RootId]
        IN  UserCall("insert_user", id, user, insert_user(UserTrees, user))

InsertNewGroup ==
    \E name \in GroupNames, l \in GroupLists, group_id \in FreshGroupIds :
        LET group == [id |-> 0, name |-> name, member_ids |-> l.member_ids,
                      admin_ids |-> l.admin_ids]
            o == insert_new_group(UserTrees, group, group_id)
        IN  UserCall("insert_new_group", o.val, group, o)

InsertGroup ==
    \E id \in NodeIds, name \in GroupNames, l \in GroupLists :
        LET group == [id |-> id, name |-> name, member_ids |-> l.member_ids,
                      admin_ids |-> l.admin_ids]
        IN  UserCall("insert_group", id, group, insert_group(UserTrees, group))

\* The user database with the calls that store users and groups.
NextUser ==
    \/ InsertUser
    \/ InsertNewGroup
    \/ InsertGroup

SpecUser == Init /\ [][NextUser]_vars

\* ----------------------------------------------------- calls on the sessions
SessionTrees == [sessions |-> session_tree, user_sessions |-> user_session_tree]

\* One call of the session store: o is its outcome on the current trees.
SessionCall(op, id, arg, o) ==
    /\ ops < MaxOps
    /\ session_tree' = o.s.sessions
    /\ user_session_tree' = o.s.user_sessions
    /\ pre_session' = SessionTrees
    /\ last' = [op |-> op, id |-> id, arg |-> arg, ret |-> o.ret, abort |-> ""]
    /\ ops' = ops + 1
    /\ UNCHANGED <<fs_vars, overflow_checks, pre, user_vars, pre_user, workers, logins, utc_now>>

\* Utc::now() at the calls: the start of the clock, or 24 hours later.
Times == {0, 86400}
\* The filter functions passed: all sessions, none, those created at or after
\* 86400, or the sessions with id 1.
Filters == {[ids |-> GeneratedIds, since |-> 0], [ids |-> {}, since |-> 0],
            [ids |-> GeneratedIds, since |-> 86400], [ids |-> {1}, since |-> 0]}

\* Ids the generator's loop of create_user_session can end on: the loop
\* draws again while the id is a key of the session tree.
FreshSessionIds == {n \in GeneratedIds : ~Has(session_tree, n)}

CreateUserSession ==
    \E user_id \in UserIds, creation_date \in Times, session_id \in FreshSessionIds :
        SessionCall("create_user_session", session_id,
                    [user_id |-> user_id, creation_date |-> creation_date],
                    StoreSession(SessionTrees, user_id, session_id, creation_date))

RemoveUserSession ==
    \E session_id \in GeneratedIds :
        SessionCall("remove_user_session", session_id, [session_id |-> session_id],
                    remove_user_session(SessionTrees, session_id))

FilterUserSessions ==
    \E user_id \in UserIds, p \in Filters :
        SessionCall("filter_user_sessions", user_id, [user_id |-> user_id, p |-> p],
                    filter_user_sessions(SessionTrees, user_id, p))

\* The session store with its three calls, one after the other.
NextSession ==
    \/ CreateUserSession
    \/ RemoveUserSession
    \/ FilterUserSessions

SpecSession == Init /\ [][NextSession]_vars

\* Two threads in create_user_session at the same time.  A call first draws
\* its session id, asking contains_key of the session tree as it is then,
\* reads the clock and builds the record; its transaction runs afterwards.
LoginDrawsId(w) ==
    /\ logins[w].pc = "idle"
    /\ \E user_id \in UserIds, creation_date \in Times, session_id \in FreshSessionIds :
           logins' = [logins EXCEPT ![w] = [pc |-> "drawn", user_id |-> user_id,
                                            session_id |-> session_id,
                                            creation_date |-> creation_date]]
    /\ UNCHANGED <<fs_vars, overflow_checks, pre, last, ops, user_vars, pre_user, workers,
                   session_tree, user_session_tree, pre_session, utc_now>>

LoginStoresSession(w) ==
    /\ logins[w].pc = "drawn"
    /\ LET o == StoreSession(SessionTrees, logins[w].user_id, logins[w].session_id,
                             logins[w].creation_date)
       IN  /\ session_tree' = o.s.sessions
           /\ user_session_tree' = o.s.user_sessions
           /\ pre_session' = SessionTrees
    /\ logins' = [logins EXCEPT ![w].pc = "stored"]
    /\ UNCHANGED <<fs_vars, overflow_checks, pre, last, ops, user_vars, pre_user, workers,
                   utc_now>>

NextLogin ==
    \/ \E w \in Workers : LoginDrawsId(w)
    \/ \E w \in Workers : LoginStoresSession(w)

SpecLogin == Init /\ [][NextLogin]_vars

\* ------------------------------------------------------------ authorization
\* trait FsNode, fn may_write and fn may_read: the controller passes the user
\* it read with get_user; the id of the user is compared with the owner.
may_write(node, user) == user.id = node.owner_id

may_read(node, user) == user.id = node.owner_id

\* The nodes and users the check is applied to: owner 7 or 8, group lists
\* without groups, with group 5, or with the groups 6 and 5.
GroupIdLists == {<<>>, <<5>>, <<6, 5>>}

CheckAuthorization ==
    \E owner_id \in UserIds, read_group_ids \in GroupIdLists, write_group_ids \in GroupIdLists,
       user_id \in UserIds, group_ids \in GroupIdLists, op \in {"may_read", "may_write"} :
        LET node == FileArg(2, RootId, owner_id, <<97>>, <<116>>,
                            <<read_group_ids, write_group_ids>>)
            user == [NoUser EXCEPT !.id = user_id, !.group_ids = group_ids]
            may == IF op = "may_read" THEN may_read(node, user) ELSE may_write(node, user)
        IN  /\ ops < MaxOps
            /\ last' = [op |-> op, id |-> node.id, arg |-> [node |-> node, user |-> user],
                        ret |-> IF may THEN "true" ELSE "false", abort |-> ""]
            /\ ops' = ops + 1
            /\ UNCHANGED <<fs_vars, overflow_checks, pre, user_vars, pre_user, workers,
                           session_vars>>

NextAuthorization == CheckAuthorization

SpecAuthorization == Init /\ [][NextAuthorization]_vars

\* ------------------------------------------------- controller: permissions
\* The checks add_read_permission and add_write_permission start with: the
\* group is fetched, then the node as a file or else as a directory, and the
\* owner of the node is compared with the user.  "" when the checks pass.
PermissionChecks(groups, dirs, files, perms, fs_node_id, group_id, user_id) ==
    LET group == get_group(groups, group_id)
        file == get_file(files, perms, fs_node_id)
        dir == get_dir(dirs, perms, fs_node_id)
    IN  IF group.res = "Panic" THEN "Panic"
        ELSE IF group.res = "None" THEN "NoSuchTarget"
        ELSE IF file.res = "Panic" THEN "Panic"
        ELSE IF file.res = "Some"
             THEN IF file.file.owner_id # user_id THEN "MissingAuthorization" ELSE ""
        ELSE IF dir.res = "Panic" THEN "Panic"
        ELSE IF dir.res = "Some"
             THEN IF dir.dir.owner_id # user_id THEN "MissingAuthorization" ELSE ""
        ELSE "NoSuchTarget"

\* controller fn add_read_permission.
add_read_permission(groups, dirs, files, perms, fs_node_id, group_id, user_id, checks) ==
    LET err == PermissionChecks(groups, dirs, files, perms, fs_node_id, group_id, user_id)
    IN  IF err # "" THEN Outcome(dirs, files, perms, err, "", 0)
        ELSE add_readable_group(dirs, files, perms, fs_node_id, group_id, checks)

\* controller fn add_write_permission.
add_write_permission(groups, dirs, files, perms, fs_node_id, group_id, user_id, checks) ==
    LET err == PermissionChecks(groups, dirs, files, perms, fs_node_id, group_id, user_id)
    IN  IF err # "" THEN Outcome(dirs, files, perms, err, "", 0)
        ELSE add_writeable_group(dirs, files, perms, fs_node_id, group_id, checks)

AddReadPermission ==
    \E fs_node_id \in NodeIds, group_id \in GeneratedIds, user_id \in UserIds :
        Call("add_read_permission", fs_node_id, [group_id |-> group_id, user_id |-> user_id],
             add_read_permission(group_tree, dir_tree, file_tree, permissions_tree,
                                 fs_node_id, group_id, user_id, overflow_checks))

AddWritePermission ==
    \E fs_node_id \in NodeIds, group_id \in GeneratedIds, user_id \in UserIds :
        Call("add_write_permission", fs_node_id, [group_id |-> group_id, user_id |-> user_id],
             add_write_permission(group_tree, dir_tree, file_tree, permissions_tree,
                                  fs_node_id, group_id, user_id, overflow_checks))

\* The controller's permission calls, on a database that groups, files and
\* directories are added to.
NextController ==
    \/ InsertNewGroup
    \/ InsertNewFile
    \/ InsertNewDir
    \/ AddReadPermission
    \/ AddWritePermission

SpecController == Init /\ [][NextController]_vars

\* ------------------------------------------------------- concurrent inserts
\* Two threads call insert_new_file / insert_new_dir at the same time.  A
\* call builds its byte representations from its arguments and then runs its
\* transaction; sled runs the closure of a transaction and its commit under
\* the locks of the trees the transaction names, so the closure reads the
\* trees as they are when the transaction runs, and the transaction is one
\* step.

\* Mutant of TxView: the closure works on the trees as they were when the
\* call was made.
TxViewAtCall(w) == workers[w].seen

\* The trees the transaction closure of thread w reads and writes.
TxView(w) == Trees

\* Thread w enters insert_new_file / insert_new_dir with its arguments.
WorkerCallsInsert(w) ==
    /\ workers[w].pc = "idle"
    /\ \E op \in {"insert_new_file", "insert_new_dir"}, parent_id \in NodeIds, a \in InsertArgs :
           workers' = [workers EXCEPT ![w] =
               [pc |-> "called", op |-> op,
                arg |-> IF op = "insert_new_file"
                        THEN FileArg(0, parent_id, RootOwner, a.name, <<116>>, a.perm)
                        ELSE DirArg(0, parent_id, RootOwner, <<>>, a.name, a.perm),
                seen |-> Trees, id |-> 0, ret |-> ""]]
    /\ UNCHANGED <<fs_vars, overflow_checks, pre, last, ops, user_vars, pre_user, session_vars>>

\* The transaction of the call of thread w runs and the call returns.
WorkerReturns(w, o) ==
    /\ dir_tree' = o.dirs
    /\ file_tree' = o.files
    /\ permissions_tree' = o.perms
    /\ workers' = [workers EXCEPT ![w].pc = "returned", ![w].id = o.val, ![w].ret = o.ret]
    /\ UNCHANGED <<overflow_checks, pre, last, ops, user_vars, pre_user, session_vars>>

WorkerInsertsNewFile(w) ==
    /\ workers[w].pc = "called"
    /\ workers[w].op = "insert_new_file"
    /\ \E file_id \in FreshIds :
           WorkerReturns(w, insert_new_file(TxView(w).dirs, TxView(w).files, TxView(w).perms,
                                            workers[w].arg, file_id))

WorkerInsertsNewDir(w) ==
    /\ workers[w].pc = "called"
    /\ workers[w].op = "insert_new_dir"
    /\ \E dir_id \in FreshIds :
           WorkerReturns(w, insert_new_dir(TxView(w).dirs, TxView(w).files, TxView(w).perms,
                                           workers[w].arg, dir_id))

NextConcurrent ==
    \/ \E w \in Workers : WorkerCallsInsert(w)
    \/ \E w \in Workers : WorkerInsertsNewFile(w)
    \/ \E w \in Workers : WorkerInsertsNewDir(w)

SpecConcurrent == Init /\ [][NextConcurrent]_vars

\* ------------------------------------------------------- reading the state
\* parent_id / owner_id of a stored file or directory record.
ParentIdOf(bytes) == from_be_bytes(Slice(bytes, 0, 8))
OwnerIdOf(bytes) == from_be_bytes(Slice(bytes, 8, 16))
\* The bytes of a directory record behind its stored child list.
StoredName(bytes) == SliceFrom(bytes, 18 + 8 * from_be_bytes(Slice(bytes, 16, 18)))

\* Ids of the stored file and directory records whose parent_id is d.
NodesWithParent(dirs, files, d) ==
    {n \in DOMAIN dirs : ParentIdOf(dirs[n]) = d} \cup {n \in DOMAIN files : ParentIdOf(files[n]) = d}

Range(seq) == {seq[i] : i \in 1..Len(seq)}
NoDuplicates(seq) == \A i, j \in 1..Len(seq) : seq[i] = seq[j] => i = j

\* The sequence without its first element equal to x.
RECURSIVE RemoveFirst(_, _)
RemoveFirst(seq, x) ==
    IF seq = <<>> THEN <<>>
    ELSE IF Head(seq) = x THEN Tail(seq)
    ELSE <<Head(seq)>> \o RemoveFirst(Tail(seq), x)

\* Files and directories below directory id, through the stored child lists.
RECURSIVE Below(_, _)
Below(dirs, set) ==
    LET more == UNION {IF Has(dirs, d) /\ StoredChilds(dirs[d]).ok
                       THEN Range(StoredChilds(dirs[d]).child_ids) ELSE {} : d \in set}
    IN  IF more \subseteq set THEN set ELSE Below(dirs, set \cup more)
Descendants(dirs, id) == Below(dirs, {id}) \ {id}

Succeeded(op) == last.op = op /\ last.ret = "Ok"

\* ------------------------------------------- controller: members and admins
\* "Make sure we don't add a user multiple times": the ids that are neither
\* in the list yet nor were pushed before are pushed, in their order.
RECURSIVE PushUnique(_, _)
PushUnique(list, ids) ==
    IF ids = <<>> THEN list
    ELSE IF Head(ids) \in Range(list) THEN PushUnique(list, Tail(ids))
    ELSE PushUnique(Append(list, Head(ids)), Tail(ids))

\* controller fn add_member_ids behind its get_group: got is what get_group
\* returned, u the user database insert_group then runs on.
add_member_ids(u, got, member_ids, user_id) ==
    IF got.res = "Panic" THEN UOutcome(u, "Panic", "", 0)
    ELSE IF got.res = "None" THEN UOutcome(u, "NoSuchTarget", "", 0)
    ELSE IF user_id \notin Range(got.group.admin_ids)
         THEN UOutcome(u, "MissingAuthorization", "", 0)
    ELSE insert_group(u, [got.group EXCEPT
                              !.member_ids = PushUnique(got.group.member_ids, member_ids)])

\* controller fn add_admin_ids behind its get_group.
add_admin_ids(u, got, admin_ids, user_id) ==
    IF got.res = "Panic" THEN UOutcome(u, "Panic", "", 0)
    ELSE IF got.res = "None" THEN UOutcome(u, "NoSuchTarget", "", 0)
    ELSE IF user_id \notin Range(got.group.admin_ids)
         THEN UOutcome(u, "MissingAuthorization", "", 0)
    ELSE insert_group(u, [got.group EXCEPT
                              !.admin_ids = PushUnique(got.group.admin_ids, admin_ids)])

\* The calls two threads make on the group of the last insert_group call:
\* user 8 adds user 7 or user 8 as a member, or user 7 as an admin.
AddIdsCalls == {[op |-> "add_member_ids", ids |-> <<7>>, user_id |-> 8],
                [op |-> "add_member_ids", ids |-> <<8>>, user_id |-> 8],
                [op |-> "add_admin_ids", ids |-> <<7>>, user_id |-> 8]}

\* Users and groups are stored one call after the other as long as no thread
\* is in add_member_ids / add_admin_ids.
NoWorkerCalled == \A w \in Workers : workers[w].pc = "idle"

\* Thread w enters add_member_ids / add_admin_ids and reads the group.
WorkerGetsGroup(w) ==
    /\ workers[w].pc = "idle"
    /\ last.op = "insert_group"
    /\ \E c \in AddIdsCalls :
           workers' = [workers EXCEPT ![w] =
               [pc |-> "read", op |-> c.op, arg |-> [ids |-> c.ids, user_id |-> c.user_id],
                seen |-> get_group(group_tree, last.arg.id), id |-> last.arg.id, ret |-> ""]]
    /\ UNCHANGED <<fs_vars, overflow_checks, pre, last, ops, user_vars, pre_user, session_vars>>

\* Thread w checks the group it read, adds the ids, writes the group with
\* insert_group into the user database as it is by now, and returns.
WorkerInsertsGroup(w) ==
    /\ workers[w].pc = "read"
    /\ LET o == IF workers[w].op = "add_member_ids"
                THEN add_member_ids(UserTrees, workers[w].seen, workers[w].arg.ids,
                                    workers[w].arg.user_id)
                ELSE add_admin_ids(UserTrees, workers[w].seen, workers[w].arg.ids,
                                   workers[w].arg.user_id)
       IN  /\ username_id_tree' = o.u.name_id
           /\ userid_name_tree' = o.u.id_name
           /\ userid_pwd_tree' = o.u.pwd
           /\ userid_rootdir_tree' = o.u.rootdir
           /\ user_groups_tree' = o.u.user_groups
           /\ group_tree' = o.u.groups
           /\ groupname_id_tree' = o.u.gname_id
           /\ workers' = [workers EXCEPT ![w].pc = "returned", ![w].ret = o.ret]
    /\ UNCHANGED <<fs_vars, overflow_checks, pre, last, ops, pre_user, session_vars>>

NextMembers ==
    \/ NoWorkerCalled /\ InsertUser
    \/ NoWorkerCalled /\ InsertGroup
    \/ \E w \in Workers : WorkerGetsGroup(w)
    \/ \E w \in Workers : WorkerInsertsGroup(w)

SpecMembers == Init /\ [][NextMembers]_vars

\* -------------------------------------------------------- controller: users
\* What a controller call on users leaves behind: the user database u, the
\* three trees of the filesystem, and the error kind returned.
COutcome(u, dirs, files, perms, ret) ==
    [u |-> u, dirs |-> dirs, files |-> files, perms |-> perms, ret |-> ret]

\* controller fn add_user, with user_id and dir_id the ids drawn.  The
\* message user_infos holds id, name and password as options; the root
\* directory of the new user is inserted with parent_id 0.
add_user(u, dirs, files, perms, user_infos, acting_user_id, user_id, dir_id) ==
    LET by_name == get_userid_by_name(u, user_infos.name)
        root_dir == DirArg(0, 0, user_id, <<>>, RootName, <<<<>>, <<>>>>)
        d == insert_new_dir(dirs, files, perms, root_dir, dir_id)
        new_user == [id |-> user_id, name |-> user_infos.name, pwd_hash |-> user_infos.password,
                     root_dir_id |-> d.val]
    IN  IF acting_user_id = 0 THEN COutcome(u, dirs, files, perms, "MissingAuthorization")
        ELSE IF ~user_infos.name_some \/ ~user_infos.password_some \/ user_infos.id_some
             THEN COutcome(u, dirs, files, perms, "BadCall")
        ELSE IF by_name.res = "Panic" THEN COutcome(u, dirs, files, perms, "Panic")
        ELSE IF by_name.res = "None" THEN COutcome(u, dirs, files, perms, "TargetExists")
        ELSE IF d.ret # "Ok" THEN COutcome(u, dirs, files, perms, d.ret)
        ELSE COutcome(insert_user(u, new_user).u, d.dirs, d.files, d.perms, "Ok")

\* controller fn update_user_infos: the name of the message is unwrapped
\* without a test, and the user read is written back with that name.
update_user_infos(u, dirs, files, perms, user_infos, acting_user_id) ==
    LET by_name == get_userid_by_name(u, user_infos.name)
        user == get_user(u, user_infos.id)
        new_user == [id |-> user.user.id, name |-> user_infos.name,
                     pwd_hash |-> user.user.pwd_hash, root_dir_id |-> user.user.root_dir_id]
    IN  IF acting_user_id = 0 THEN COutcome(u, dirs, files, perms, "MissingAuthorization")
        ELSE IF ~user_infos.id_some THEN COutcome(u, dirs, files, perms, "BadCall")
        ELSE IF ~user_infos.name_some \/ by_name.res = "Panic"
             THEN COutcome(u, dirs, files, perms, "Panic")
        ELSE IF by_name.res = "None" THEN COutcome(u, dirs, files, perms, "TargetExists")
        ELSE IF user.res = "Panic" THEN COutcome(u, dirs, files, perms, "Panic")
        ELSE IF user.res = "None" THEN COutcome(u, dirs, files, perms, "NoSuchTarget")
        ELSE COutcome(insert_user(u, new_user).u, dirs, files, perms, "Ok")

\* The messages: a name ("u", "v" or "w") with a password and no id, as
\* add_user asks for, or with the id of user 7 or 8 and no password; a
\* message without a name.
UserMsgs ==
    {[id_some |-> FALSE, id |-> 0, name_some |-> TRUE, name |-> n,
      password_some |-> TRUE, password |-> RootPwdHash] : n \in UserNames \cup {<<119>>}}
    \cup {[id_some |-> TRUE, id |-> i, name_some |-> TRUE, name |-> n,
           password_some |-> FALSE, password |-> <<>>] : i \in UserIds, n \in UserNames \cup {<<119>>}}
    \cup {[id_some |-> FALSE, id |-> 0, name_some |-> FALSE, name |-> <<>>,
           password_some |-> TRUE, password |-> RootPwdHash]}
\* The acting users: 0, or the first user.
ActingUserIds == {0, RootOwner}

\* Ids the generator's loop of add_user can end on: the loop draws again
\* while get_user finds a user.
FreshUserIds == {n \in GeneratedIds : get_user(UserTrees, n).res = "None"}

\* One call of the controller on users: o is its outcome.
ControllerCall(op, arg, o) ==
    /\ ops < MaxOps
    /\ username_id_tree' = o.u.name_id
    /\ userid_name_tree' = o.u.id_name
    /\ userid_pwd_tree' = o.u.pwd
    /\ userid_rootdir_tree' = o.u.rootdir
    /\ user_groups_tree' = o.u.user_groups
    /\ group_tree' = o.u.groups
    /\ groupname_id_tree' = o.u.gname_id
    /\ dir_tree' = o.dirs
    /\ file_tree' = o.files
    /\ permissions_tree' = o.perms
    /\ pre' = Trees
    /\ pre_user' = UserTrees
    /\ last' = [op |-> op, id |-> arg.user_infos.id, arg |-> arg, ret |-> o.ret, abort |-> ""]
    /\ ops' = ops + 1
    /\ UNCHANGED <<overflow_checks, workers, session_vars>>

AddUser ==
    \E user_infos \in UserMsgs, acting_user_id \in ActingUserIds, user_id \in FreshUserIds,
       dir_id \in FreshIds :
        ControllerCall("add_user", [user_infos |-> user_infos, acting_user_id |-> acting_user_id],
                       add_user(UserTrees, dir_tree, file_tree, permissions_tree, user_infos,
                                acting_user_id, user_id, dir_id))

UpdateUserInfos ==
    \E user_infos \in UserMsgs, acting_user_id \in ActingUserIds :
        ControllerCall("update_user_infos",
                       [user_infos |-> user_infos, acting_user_id |-> acting_user_id],
                       update_user_infos(UserTrees, dir_tree, file_tree, permissions_tree,
                                         user_infos, acting_user_id))

\* The controller's calls on users, on a user database insert_user writes to.
NextUserController ==
    \/ InsertUser
    \/ AddUser
    \/ UpdateUserInfos

SpecUserController == Init /\ [][NextUserController]_vars

\* ------------------------------------------------------------ route: login
\* Duration::hours(24), in seconds.
SessionMaxAge == 86400
\* The times the clock shows, one after the other.
ClockTimes == <<0, 1, SessionMaxAge>>

\* Mutant of NotExpired: a session that is exactly 24 hours old stays.
NotExpiredInclusive(session, now) == now - session.creation_date <= SessionMaxAge

\* The closure login passes to filter_user_sessions:
\* Utc::now().signed_duration_since(session.creation_date) < Duration::hours(24).
NotExpired(session, now) == now - session.creation_date < SessionMaxAge

\* A request to login with the right password arrives at thread w.  The user
\* id is looked up by the name and the user is read; filter_user_sessions
\* then starts to scan the markers of the user.  A name without a user ends
\* the request.
LoginScansSessions(w) ==
    /\ logins[w].pc = "idle"
    /\ ops < MaxOps
    /\ ops' = ops + 1
    /\ \E username \in UserNames :
           LET by_name == get_userid_by_name(UserTrees, username)
               user == get_user(UserTrees, by_name.id)
           IN  logins' = IF by_name.res = "Some" /\ user.res = "Some"
                         THEN [logins EXCEPT ![w] =
                                  [pc |-> "scanned", user_id |-> user.user.id, session_id |-> 0,
                                   creation_date |-> 0, at |-> utc_now, removed |-> {},
                                   keys |-> scan_prefix(user_session_tree, user.user.id)]]
                         ELSE logins
    /\ UNCHANGED <<fs_vars, overflow_checks, pre, last, user_vars, pre_user, workers,
                   session_tree, user_session_tree, pre_session, utc_now>>

\* One round of the loop of filter_user_sessions in thread w: the session of
\* the next key is read and, when the closure returns false, removed.  A key
\* without a session record ends the request with a panic.
LoginFiltersSession(w) ==
    /\ logins[w].pc = "scanned"
    /\ logins[w].keys # <<>>
    /\ LET key == Head(logins[w].keys)
           session_id == from_be_bytes(Slice(key, 8, 16))
           session == get_user_session(SessionTrees, session_id)
           r == remove_user_session(SessionTrees, session_id)
       IN  IF ~Has(user_session_tree, key)
           THEN /\ logins' = [logins EXCEPT ![w].keys = Tail(logins[w].keys)]
                /\ UNCHANGED <<session_tree, user_session_tree>>
           ELSE IF session.res # "Some"
           THEN /\ logins' = [logins EXCEPT ![w].pc = "panicked"]
                /\ UNCHANGED <<session_tree, user_session_tree>>
           ELSE IF NotExpired(session.session, utc_now)
           THEN /\ logins' = [logins EXCEPT ![w].keys = Tail(logins[w].keys)]
                /\ UNCHANGED <<session_tree, user_session_tree>>
           ELSE /\ logins' = [logins EXCEPT
                                 ![w].keys = Tail(logins[w].keys),
                                 ![w].removed = logins[w].removed
                                     \cup {[session |-> session.session, at |-> utc_now]}]
                /\ session_tree' = r.s.sessions
                /\ user_session_tree' = r.s.user_sessions
    /\ UNCHANGED <<fs_vars, overflow_checks, pre, last, ops, user_vars, pre_user, workers,
                   pre_session, utc_now>>

\* The ids a login draws: of the ids the generator's loop can end on, the
\* two smallest stand for all, so that two threads can draw the same id and
\* can draw different ids.
DrawnSessionIds == {n \in FreshSessionIds : Cardinality({m \in FreshSessionIds : m < n}) < 2}

\* filter_user_sessions has returned and thread w enters
\* create_user_session: it draws the session id and reads the clock.
LoginCreatesSession(w) ==
    /\ logins[w].pc = "scanned"
    /\ logins[w].keys = <<>>
    /\ \E session_id \in DrawnSessionIds :
           logins' = [logins EXCEPT ![w].pc = "drawn", ![w].session_id = session_id,
                                    ![w].creation_date = utc_now]
    /\ UNCHANGED <<fs_vars, overflow_checks, pre, last, ops, user_vars, pre_user, workers,
                   session_tree, user_session_tree, pre_session, utc_now>>

\* The request of thread w is answered, or has ended with the panic.
LoginReturns(w) ==
    /\ logins[w].pc \in {"stored", "panicked"}
    /\ logins' = [logins EXCEPT ![w] = IdleLogin]
    /\ UNCHANGED <<fs_vars, overflow_checks, pre, last, ops, user_vars, pre_user, workers,
                   session_tree, user_session_tree, pre_session, utc_now>>

\* Time passes.  The clock does not go back, and a request that is being
\* handled began less than 24 hours ago: no thread rests for a day between
\* two statements of login.
ClockTicks ==
    /\ \E i \in 1..(Len(ClockTimes) - 1) :
           /\ utc_now = ClockTimes[i]
           /\ utc_now' = ClockTimes[i + 1]
           /\ \A w \in Workers :
                  logins[w].pc # "idle" => ClockTimes[i + 1] - logins[w].at < SessionMaxAge
    /\ UNCHANGED <<fs_vars, overflow_checks, pre, last, ops, user_vars, pre_user, workers,
                   session_tree, user_session_tree, pre_session, logins>>

\* Logins of two threads at the same time, one login after the other in each
\* thread, on a user database insert_user writes to.
NextLoginRoute ==
    \/ InsertUser
    \/ \E w \in Workers : LoginScansSessions(w)
    \/ \E w \in Workers : LoginFiltersSession(w)
    \/ \E w \in Workers : LoginCreatesSession(w)
    \/ \E w \in Workers : LoginStoresSession(w)
    \/ \E w \in Workers : LoginReturns(w)
    \/ ClockTicks

SpecLoginRoute == Init /\ [][NextLoginRoute]_vars

\* ------------------------------------------------- remove_dir: the traversal
\* Ids the random generator has drawn whose low two bytes are 0:
\* entry_to_dir_incomplete, which reads the child ids two bytes behind their
\* place, reads the stored child id k as WideId(k).
WideId(k) == 65536 * k
WideIds == {WideId(k) : k \in NodeIds}

\* The record of a directory "\0\0home" with the childs child_ids, which
\* entry_to_dir_incomplete reads as a directory with the childs
\* WideId(child_ids[i]).
DirEntryReadAs(parent_id, child_ids) ==
    u64_to_be_bytes(parent_id) \o u64_to_be_bytes(RootOwner)
        \o serialize_id_list(child_ids) \o <<0, 0>> \o RootName

\* A record that is cut off inside its owner id.
TornEntry == <<0, 0, 0, 0, 0, 0, 0, 1, 0, 0>>

\* Child lists that are read with an id twice, with the id of the directory
\* itself or of a directory above it, and with an id that no record has
\* (WideId(MaxId + 1)).
ChildLists == {<<>>, <<1>>, <<2, 2>>, <<2, 3>>, <<3, 1, MaxId + 1>>}
DirEntries ==
    {DirEntryReadAs(WideId(RootId), child_ids) : child_ids \in ChildLists} \cup {TornEntry}

\* The thread that runs remove_dir.
Remover == 1

\* Mutant of RemoveChildsRound: the record of next_id is read and stays in the
\* directory tree.
RemoveChildsRoundGet(dirs, files, perms, todo_stack) ==
    LET next_id == todo_stack[Len(todo_stack)]
        rest == SubSeq(todo_stack, 1, Len(todo_stack) - 1)
    IN  IF Has(dirs, next_id)
        THEN LET e == entry_to_dir_incomplete(next_id, dirs[next_id])
             IN  IF ~e.ok
                 THEN [pc |-> "panicked", dirs |-> dirs, files |-> files, perms |-> perms,
                       todo_stack |-> todo_stack, expanded |-> <<>>]
                 ELSE [pc |-> "loop", dirs |-> dirs, files |-> files,
                       perms |-> Del(perms, next_id), todo_stack |-> rest \o e.dir.child_ids,
                       expanded |-> <<next_id>>]
        ELSE [pc |-> "loop", dirs |-> dirs, files |-> Del(files, next_id),
              perms |-> Del(perms, next_id), todo_stack |-> rest, expanded |-> <<>>]

\* remove_dir, one round of `while !todo_stack.is_empty()`: next_id is popped,
\* its record is removed from the directory tree and, if there was one, its
\* childs are pushed; otherwise the id is removed from the file tree.  The
\* permission record goes in both cases.  expanded names the directory whose
\* childs were pushed.
RemoveChildsRound(dirs, files, perms, todo_stack) ==
    LET next_id == todo_stack[Len(todo_stack)]
        rest == SubSeq(todo_stack, 1, Len(todo_stack) - 1)
    IN  IF Has(dirs, next_id)
        THEN LET e == entry_to_dir_incomplete(next_id, dirs[next_id])
             IN  IF ~e.ok
                 THEN [pc |-> "panicked", dirs |-> dirs, files |-> files, perms |-> perms,
                       todo_stack |-> todo_stack, expanded |-> <<>>]
                 ELSE [pc |-> "loop", dirs |-> Del(dirs, next_id), files |-> files,
                       perms |-> Del(perms, next_id), todo_stack |-> rest \o e.dir.child_ids,
                       expanded |-> <<next_id>>]
        ELSE [pc |-> "loop", dirs |-> dirs, files |-> Del(files, next_id),
              perms |-> Del(perms, next_id), todo_stack |-> rest, expanded |-> <<>>]

\* remove_dir(id) is called on a store: the root directory, directories with
\* the ids dir_ids and files with the other ids, each with a permission
\* record.  The closure runs up to its loop: the record of id is read, id is
\* taken from the parent, and the childs of id make the first todo_stack.
RemoveDirStarts ==
    \E dir_ids \in SUBSET (WideIds \ {WideId(RootId)}) :
        \E entries \in [dir_ids -> DirEntries], root_childs \in ChildLists, id \in dir_ids :
            LET dirs == [x \in dir_ids \cup {WideId(RootId)} |->
                            IF x = WideId(RootId) THEN DirEntryReadAs(0, root_childs)
                            ELSE entries[x]]
                files == [x \in WideIds \ DOMAIN dirs |-> FileData(NoFile)]
                perms == [x \in WideIds |-> PermData(NoDir)]
                e == entry_to_dir_incomplete(id, dirs[id])
                p == IF e.ok /\ Has(dirs, e.dir.parent_id)
                     THEN RemoveChild(dirs[e.dir.parent_id], id, overflow_checks)
                     ELSE [ok |-> FALSE, bytes |-> <<>>]
            IN  /\ workers[Remover].pc = "idle"
                /\ workers' = [workers EXCEPT ![Remover] =
                       [pc |-> IF p.ok THEN "loop" ELSE "panicked",
                        op |-> "remove_dir",
                        arg |-> [dirs |-> IF p.ok THEN Put(dirs, e.dir.parent_id, p.bytes)
                                          ELSE dirs,
                                 files |-> files, perms |-> perms,
                                 todo_stack |-> IF p.ok THEN e.dir.child_ids ELSE <<>>],
                        seen |-> <<>>, id |-> id, ret |-> ""]]
                /\ UNCHANGED <<fs_vars, overflow_checks, pre, last, ops, user_vars, pre_user,
                               session_vars>>

\* One round of the loop.
RemoveDirRound ==
    /\ workers[Remover].pc = "loop"
    /\ workers[Remover].arg.todo_stack # <<>>
    /\ LET a == workers[Remover].arg
           r == RemoveChildsRound(a.dirs, a.files, a.perms, a.todo_stack)
       IN  workers' = [workers EXCEPT ![Remover] =
               [@ EXCEPT !.pc = r.pc,
                         !.arg = [dirs |-> r.dirs, files |-> r.files, perms |-> r.perms,
                                  todo_stack |-> r.todo_stack],
                         !.seen = @ \o r.expanded]]
    /\ UNCHANGED <<fs_vars, overflow_checks, pre, last, ops, user_vars, pre_user, session_vars>>

\* The loop is left with an empty todo_stack and the closure returns, or the
\* call has panicked: the thread is free for the next call.
RemoveDirReturns ==
    /\ \/ workers[Remover].pc = "loop" /\ workers[Remover].arg.todo_stack = <<>>
       \/ workers[Remover].pc = "panicked"
    /\ workers' = [workers EXCEPT ![Remover] = IdleWorker]
    /\ UNCHANGED <<fs_vars, overflow_checks, pre, last, ops, user_vars, pre_user, session_vars>>

NextTraversal ==
    \/ RemoveDirStarts
    \/ RemoveDirRound
    \/ RemoveDirReturns

SpecTraversal == Init /\ [][NextTraversal]_vars

\* ------------------------------------------------ admin tool: useradd
\* bonbon useradd <db-location> <username> <password>, with user_id and
\* dir_id the ids drawn: the user and a root directory (parent 0, no childs,
\* name "home") are written in one transaction over the trees usernames_ids,
\* userids_names, userids_pwds, userid_rootdir and dirs.
useradd(u, dirs, files, perms, username, password_hash, user_id, dir_id) ==
    IF Has(u.name_id, username) THEN COutcome(u, dirs, files, perms, "exists")
    ELSE COutcome([u EXCEPT !.name_id = Put(u.name_id, username, u64_to_be_bytes(user_id)),
                            !.id_name = Put(u.id_name, user_id, username),
                            !.pwd = Put(u.pwd, user_id, password_hash),
                            !.rootdir = Put(u.rootdir, user_id, u64_to_be_bytes(dir_id))],
                  Put(dirs, dir_id,
                      u64_to_be_bytes(0) \o u64_to_be_bytes(user_id) \o u16_to_be_bytes(0)
                          \o RootName),
                  files, perms, "Ok")

\* controller fn add_dir, with dir_id the id drawn: the parent is fetched with
\* get_dir, then the user with get_user, and the user must be allowed to write
\* to the parent.  dir_infos holds parent_id and name as options.
add_dir(u, dirs, files, perms, dir_infos, user_id, dir_id) ==
    LET parent == get_dir(dirs, perms, dir_infos.parent_id)
        user == get_user(u, user_id)
        new_dir == DirArg(0, dir_infos.parent_id, user_id, <<>>,
                          IF dir_infos.name_some THEN dir_infos.name ELSE <<>>, <<<<>>, <<>>>>)
        o == insert_new_dir(dirs, files, perms, new_dir, dir_id)
    IN  IF ~dir_infos.parent_id_some THEN COutcome(u, dirs, files, perms, "BadCall")
        ELSE IF parent.res = "Panic" THEN COutcome(u, dirs, files, perms, "Panic")
        ELSE IF parent.res = "None" THEN COutcome(u, dirs, files, perms, "NoSuchDir")
        ELSE IF user.res = "Panic" THEN COutcome(u, dirs, files, perms, "Panic")
        ELSE IF user.res = "None" THEN COutcome(u, dirs, files, perms, "BadCall")
        ELSE IF ~may_write(parent.dir, user.user)
             THEN COutcome(u, dirs, files, perms, "MissingAuthorization")
        ELSE COutcome(u, o.dirs, o.files, o.perms, o.ret)

\* Ids the generator's loop of useradd can end on: it draws again while the
\* id is a key of userids_names.
AddedUserIds == {n \in UserIds : ~Has(userid_name_tree, n)}

\* The messages add_dir is called with.
DirMsgs ==
    [parent_id_some : BOOLEAN, parent_id : NodeIds, name_some : BOOLEAN, name : {<<97>>}]

UserAdd ==
    \E username \in UserNames, user_id \in AddedUserIds, dir_id \in FreshIds :
        ControllerCall("useradd",
                       [user_infos |-> [id |-> user_id, name |-> username], dir_id |-> dir_id],
                       useradd(UserTrees, dir_tree, file_tree, permissions_tree, username,
                               RootPwdHash, user_id, dir_id))

AddDir ==
    \E dir_infos \in DirMsgs, user_id \in UserIds, dir_id \in FreshIds :
        ControllerCall("add_dir", [user_infos |-> [id |-> user_id], dir_infos |-> dir_infos],
                       add_dir(UserTrees, dir_tree, file_tree, permissions_tree, dir_infos,
                               user_id, dir_id))

\* Users are added with the admin tool; directories are added through the
\* controller and, for the directories below a root, by the engine itself.
NextAdmin ==
    \/ UserAdd
    \/ AddDir
    \/ InsertNewDir

SpecAdmin == Init /\ [][NextAdmin]_vars

\* ------------------------------------------------- offsets of long lists
\* update_dir, end_of_childs: 18 + 8 * count evaluated in u16; it panics with
\* overflow checks and wraps without them.  ok = FALSE models the panic.
EndOfChilds(old_bytes, checks) ==
    IF ~InRange(old_bytes, 16, 18) THEN [ok |-> FALSE, at |-> 0]
    ELSE LET exact == 18 + 8 * from_be_bytes(Slice(old_bytes, 16, 18))
         IN  IF exact > U16Max /\ checks THEN [ok |-> FALSE, at |-> 0]
             ELSE [ok |-> TRUE, at |-> exact % (U16Max + 1)]

\* Lengths of the stored lists: short ones, and the longest ones whose end
\* still lies below 2^16 together with the next longer ones (for the child
\* list behind 18 bytes, for the read list behind 2 bytes).
ListCounts == {0, 1, 8189, 8190, 8191, 8192}

\* A permission record with count read groups (all group 5), no write group.
PermEntryWithGroups(count) ==
    u16_to_be_bytes(count) \o [i \in 1..(8 * count) |-> IF i % 8 = 0 THEN 5 ELSE 0]
        \o u16_to_be_bytes(0)
PermEntries == [count \in ListCounts |-> PermEntryWithGroups(count)]
LongDirEntries == [count \in ListCounts |-> RootEntryWithChilds(count)]

\* update_dir, add_readable_group or add_writeable_group is applied to a
\* database that holds one directory with count childs and count read groups;
\* what the call returns, the offset it computes and the offset where the
\* list ends are recorded in last.
CallOnLongList ==
    \E op \in {"update_dir", "add_readable_group", "add_writeable_group"},
       count \in ListCounts, group_id \in GroupIds :
        LET dirs == (RootId :> LongDirEntries[count])
            perms == (RootId :> PermEntries[count])
            new_dir == DirArg(RootId, 0, RootOwner, <<>>, RootName, <<<<>>, <<>>>>)
            o == IF op = "update_dir"
                 THEN update_dir(dirs, EmptyTree, perms, new_dir, overflow_checks)
                 ELSE IF op = "add_readable_group"
                 THEN add_readable_group(dirs, EmptyTree, perms, RootId, group_id,
                                         overflow_checks)
                 ELSE add_writeable_group(dirs, EmptyTree, perms, RootId, group_id,
                                          overflow_checks)
            offset == IF op = "update_dir" THEN EndOfChilds(dirs[RootId], overflow_checks)
                      ELSE SecondListStart(perms[RootId], overflow_checks)
        IN  /\ ops < MaxOps
            /\ last' = [op |-> op, id |-> RootId,
                        arg |-> [count |-> count, group_id |-> group_id,
                                 overflow |-> ~offset.ok, offset |-> offset.at,
                                 end_of_list |-> IF op = "update_dir" THEN 18 + 8 * count
                                                 ELSE 2 + 8 * count],
                        ret |-> o.ret, abort |-> o.abort]
            /\ ops' = ops + 1
            /\ UNCHANGED <<fs_vars, overflow_checks, pre, user_vars, pre_user, workers, session_vars>>

NextLongLists == CallOnLongList

SpecLongLists == Init /\ [][NextLongLists]_vars

\* ------------------------------------------------------------------ claims

\* C1: tree consistency.  After any sequence of insert_new_file,
\* insert_new_dir, remove_file and remove_dir calls, the stored child list of
\* every stored directory d holds exactly the ids of the stored file and
\* directory records whose parent_id is d, each once.
C1_TreeConsistency ==
    \A d \in DOMAIN dir_tree :
        LET c == StoredChilds(dir_tree[d])
        IN  /\ c.ok
            /\ Range(c.child_ids) = NodesWithParent(dir_tree, file_tree, d)
            /\ NoDuplicates(c.child_ids)

\* C2: cascading delete.  After remove_dir(id) succeeds on a directory that
\* has descendants, no descendant is retrievable through get_file or get_dir
\* and no permission record remains for any descendant.
C2_CascadingDelete ==
    Succeeded("remove_dir") =>
        \A n \in Descendants(pre.dirs, last.id) :
            /\ get_file(file_tree, permissions_tree, n).res = "None"
            /\ get_dir(dir_tree, permissions_tree, n).res = "None"
            /\ ~Has(permissions_tree, n)

\* C3: root protection.  remove_dir(id) on a directory whose parent_id is 0
\* returns ForbiddenAction and changes no record of the three trees.
C3_RootProtection ==
    (last.op = "remove_dir" /\ Has(pre.dirs, last.id) /\ ParentIdOf(pre.dirs[last.id]) = 0) =>
        /\ last.ret = "ForbiddenAction"
        /\ Trees = pre

\* C4: after insert_new_file or insert_new_dir succeeds with parent P, the
\* child_ids of the directory get_dir(P) returns are the child ids P stored
\* before, in their order, followed by the new id.
C4_InsertAppendsChild ==
    (Succeeded("insert_new_file") \/ Succeeded("insert_new_dir")) =>
        LET P == last.arg.parent_id
            g == get_dir(dir_tree, permissions_tree, P)
        IN  g.res = "Some" =>
                g.dir.child_ids = StoredChilds(pre.dirs[P]).child_ids \o <<last.id>>

\* The parent of the node the last remove_file / remove_dir call named.
RemovedFrom ==
    IF last.op = "remove_file" THEN ParentIdOf(pre.files[last.id])
    ELSE ParentIdOf(pre.dirs[last.id])

\* C5: a successful remove_file(id) / remove_dir(id) removes exactly the one
\* entry equal to id from the stored child list of the parent and lowers the
\* stored count by one; the other child ids keep their order, and parent_id,
\* owner_id and name of the parent are unchanged.
C5_RemoveSplicesOneEntry ==
    ((Succeeded("remove_file") \/ Succeeded("remove_dir"))
        /\ StoredChilds(pre.dirs[RemovedFrom]).ok
        /\ last.id \in Range(StoredChilds(pre.dirs[RemovedFrom]).child_ids)) =>
        LET old == pre.dirs[RemovedFrom]
            new == dir_tree[RemovedFrom]
        IN  /\ Has(dir_tree, RemovedFrom)
            /\ StoredChilds(new).ok
            /\ StoredChilds(new).child_ids = RemoveFirst(StoredChilds(old).child_ids, last.id)
            /\ from_be_bytes(Slice(new, 16, 18)) = from_be_bytes(Slice(old, 16, 18)) - 1
            /\ ParentIdOf(new) = ParentIdOf(old)
            /\ OwnerIdOf(new) = OwnerIdOf(old)
            /\ StoredName(new) = StoredName(old)

\* C5 witness: remove_file succeeded on the first of several childs of its
\* parent, so that childs behind the removed entry remain.
C5_Witness ==
    /\ Succeeded("remove_file")
    /\ StoredChilds(pre.dirs[RemovedFrom]).ok
    /\ Len(StoredChilds(pre.dirs[RemovedFrom]).child_ids) >= 2
    /\ StoredChilds(pre.dirs[RemovedFrom]).child_ids[1] = last.id

\* C6: after a successful remove_dir(id) the directory tree holds no record
\* under id: a second remove_dir(id) returns NoSuchDir, and an insert with
\* parent_id = id fails.
C6_RemoveDirRemovesDir ==
    Succeeded("remove_dir") =>
        /\ ~Has(dir_tree, last.id)
        /\ remove_dir(dir_tree, file_tree, permissions_tree, last.id, overflow_checks).ret
               = "NoSuchDir"
        /\ \A n \in FreshIds :
               insert_new_dir(dir_tree, file_tree, permissions_tree,
                              DirArg(0, last.id, RootOwner, <<>>, <<97>>, <<<<>>, <<>>>>), n).ret
                   # "Ok"

\* C7: when the transaction closure of a call aborts with a specific error
\* kind, the caller of the call receives exactly that kind.
C7_ErrorKindSurvives ==
    last.abort # "" => last.ret = last.abort

\* C8: insert is all-or-nothing.  A failed insert_new_file / insert_new_dir
\* leaves the three trees as they were; after a successful one the parent
\* lists the new id last, and the node record and the permission record of
\* the new id are stored.
C8_InsertAllOrNothing ==
    last.op \in {"insert_new_file", "insert_new_dir"} =>
        IF last.ret = "Ok"
        THEN LET P == last.arg.parent_id IN
             /\ ~Has(pre.dirs, last.id) /\ ~Has(pre.files, last.id)
             /\ Has(dir_tree, P)
             /\ StoredChilds(dir_tree[P]).ok
             /\ StoredChilds(dir_tree[P]).child_ids # <<>>
             /\ StoredChilds(dir_tree[P]).child_ids[Len(StoredChilds(dir_tree[P]).child_ids)]
                    = last.id
             /\ Has(permissions_tree, last.id)
             /\ permissions_tree[last.id] = PermData(last.arg)
             /\ IF last.op = "insert_new_file"
                THEN Has(file_tree, last.id) /\ file_tree[last.id] = FileData(last.arg)
                ELSE Has(dir_tree, last.id) /\ dir_tree[last.id] = NewDirData(last.arg)
        ELSE Trees = pre

\* C8 witness: an insert failed because its parent directory does not exist.
C8_Witness ==
    /\ last.op \in {"insert_new_file", "insert_new_dir"}
    /\ last.ret # "Ok"
    /\ last.abort = "NoSuchDir"
    /\ ~Has(pre.dirs, last.arg.parent_id)

\* C9: remove_file(id) on a file whose parent directory record is missing
\* returns an error, and the file record is still stored afterwards: the
\* trees are as they were.
C9_RemoveFileMissingParent ==
    (last.op = "remove_file" /\ Has(pre.files, last.id)
        /\ ~Has(pre.dirs, ParentIdOf(pre.files[last.id]))) =>
        /\ last.ret \notin {"Ok", "Panic"}
        /\ Has(file_tree, last.id)
        /\ Trees = pre

\* C9 witness: remove_file was called on a stored file whose parent directory
\* record is missing, and its closure aborted with InconsistentDbState.
C9_Witness ==
    /\ last.op = "remove_file"
    /\ Has(pre.files, last.id)
    /\ ~Has(pre.dirs, ParentIdOf(pre.files[last.id]))
    /\ last.abort = "InconsistentDbState"

\* C10: a successful update_dir leaves the stored child list of the directory
\* (child count and child ids, in order) as it was stored before the call.
C10_UpdateDirKeepsChilds ==
    (Succeeded("update_dir") /\ StoredChilds(pre.dirs[last.id]).ok) =>
        /\ StoredChilds(dir_tree[last.id]).ok
        /\ StoredChilds(dir_tree[last.id]).child_ids = StoredChilds(pre.dirs[last.id]).child_ids
        /\ from_be_bytes(Slice(dir_tree[last.id], 16, 18))
               = from_be_bytes(Slice(pre.dirs[last.id], 16, 18))

\* C11: every id insert_new_file / insert_new_dir assigns is non-zero and, when
\* it is committed, is the id of no stored file record and of no stored
\* directory record; no id is ever the key of a file record and of a directory
\* record at once.
C11_IdsAreFresh ==
    /\ (Succeeded("insert_new_file") \/ Succeeded("insert_new_dir")) =>
           /\ last.id # 0
           /\ ~Has(pre.dirs, last.id)
           /\ ~Has(pre.files, last.id)
    /\ (DOMAIN dir_tree) \cap (DOMAIN file_tree) = {}

\* C11 witness: an insert succeeded while a file was stored besides the root
\* directory, so that the generator had ids of both trees to avoid.
C11_Witness ==
    /\ (Succeeded("insert_new_file") \/ Succeeded("insert_new_dir"))
    /\ pre.files # EmptyTree
    /\ pre.dirs # EmptyTree

\* The node record and the permission record the insert of thread w wrote are
\* stored, and the stored child list of its parent holds its id.
WorkerNodeStored(w) ==
    LET a == workers[w].arg
        n == workers[w].id
    IN  /\ Has(dir_tree, a.parent_id)
        /\ StoredChilds(dir_tree[a.parent_id]).ok
        /\ n \in Range(StoredChilds(dir_tree[a.parent_id]).child_ids)
        /\ IF workers[w].op = "insert_new_file"
           THEN Has(file_tree, n) /\ file_tree[n] = FileData(a)
           ELSE Has(dir_tree, n) /\ ParentIdOf(dir_tree[n]) = a.parent_id
        /\ Has(permissions_tree, n)
        /\ permissions_tree[n] = PermData(a)

\* C12: when two insert_new_file / insert_new_dir calls with the same parent
\* run at the same time and both return success, the parent's child list
\* holds both new ids, which differ, and both node records and both
\* permission records are stored.
C12_ConcurrentInsertsKeepBoth ==
    ((\A w \in Workers : workers[w].pc = "returned" /\ workers[w].ret = "Ok")
        /\ workers[1].arg.parent_id = workers[2].arg.parent_id) =>
        /\ workers[1].id # workers[2].id
        /\ \A w \in Workers : WorkerNodeStored(w)

\* C12 witness: both calls were made before either transaction ran, both
\* name the same parent, and both returned success.
C12_Witness ==
    /\ \A w \in Workers : workers[w].pc = "returned" /\ workers[w].ret = "Ok"
    /\ workers[1].arg.parent_id = workers[2].arg.parent_id
    /\ workers[1].seen = workers[2].seen

C14_AddReadableGroup ==
    (Succeeded("add_readable_group") /\ Has(pre.perms, last.id)) =>
        LET old == pre.perms[last.id]
            f == get_file(file_tree, permissions_tree, last.id)
            d == get_dir(dir_tree, permissions_tree, last.id)
        IN  IF Has(file_tree, last.id)
            THEN /\ f.res = "Some"
                 /\ f.file.read_group_ids = parse_read_group_ids(old) \o <<last.arg.group_id>>
                 /\ f.file.write_group_ids = parse_write_group_ids(old)
            ELSE /\ d.res = "Some"
                 /\ d.dir.read_group_ids = parse_read_group_ids(old) \o <<last.arg.group_id>>
                 /\ d.dir.write_group_ids = parse_write_group_ids(old)

\* C15: a successful add_writeable_group(n, g) appends g as the last element
\* of n's write_group_ids and leaves unchanged n's read_group_ids, every file
\* and directory record (child lists included) and the permission record of
\* every other node.
C15_AddWriteableGroupFrame ==
    Succeeded("add_writeable_group") =>
        /\ Has(pre.perms, last.id)
        /\ permissions_tree[last.id]
               = serialize_id_list(parse_read_group_ids(pre.perms[last.id]))
                     \o serialize_id_list(parse_write_group_ids(pre.perms[last.id])
                                              \o <<last.arg.group_id>>)
        /\ parse_write_group_ids(permissions_tree[last.id])
               = parse_write_group_ids(pre.perms[last.id]) \o <<last.arg.group_id>>
        /\ parse_read_group_ids(permissions_tree[last.id]) = parse_read_group_ids(pre.perms[last.id])
        /\ dir_tree = pre.dirs
        /\ file_tree = pre.files
        /\ DOMAIN permissions_tree = DOMAIN pre.perms
        /\ \A m \in DOMAIN pre.perms : m # last.id => permissions_tree[m] = pre.perms[m]

\* C15 witness: add_writeable_group succeeded on a node that has read groups
\* and write groups, while another node has a permission record too.
C15_Witness ==
    /\ Succeeded("add_writeable_group")
    /\ parse_read_group_ids(pre.perms[last.id]) # <<>>
    /\ parse_write_group_ids(pre.perms[last.id]) # <<>>
    /\ Cardinality(DOMAIN pre.perms) >= 2

\* C16: add_readable_group / add_writeable_group do not de-duplicate: every
\* successful add_readable_group(n, g) raises the number of times g occurs in
\* n's read_group_ids by one, also when g is listed already, and likewise
\* add_writeable_group for write_group_ids.
C16_NoDeduplication ==
    /\ Succeeded("add_readable_group") =>
           Occurrences(parse_read_group_ids(permissions_tree[last.id]), last.arg.group_id)
               = Occurrences(parse_read_group_ids(pre.perms[last.id]), last.arg.group_id) + 1
    /\ Succeeded("add_writeable_group") =>
           Occurrences(parse_write_group_ids(permissions_tree[last.id]), last.arg.group_id)
               = Occurrences(parse_write_group_ids(pre.perms[last.id]), last.arg.group_id) + 1

\* C16 witness: add_readable_group succeeded with a group the node's
\* read_group_ids held already, which now hold it twice.
C16_Witness ==
    /\ Succeeded("add_readable_group")
    /\ Occurrences(parse_read_group_ids(pre.perms[last.id]), last.arg.group_id) = 1
    /\ Occurrences(parse_read_group_ids(permissions_tree[last.id]), last.arg.group_id) = 2

\* C17: file and permission records round-trip: after insert_new_file or
\* update_file succeeds, get_file(id) returns the parent_id, owner_id, name,
\* media_type, read_group_ids and write_group_ids that were written.
C17_FileRoundTrip ==
    (Succeeded("insert_new_file") \/ Succeeded("update_file")) =>
        LET f == get_file(file_tree, permissions_tree, last.id)
        IN  /\ f.res = "Some"
            /\ f.file = [last.arg EXCEPT !.id = last.id]

\* C17 witness: update_file succeeded with a new owner and with groups in
\* both lists, the value get_file has to give back.
C17_Witness ==
    /\ Succeeded("update_file")
    /\ last.arg.owner_id # RootOwner
    /\ last.arg.read_group_ids # <<>>
    /\ last.arg.write_group_ids # <<>>

\* The users insert_user (or the admin tool) stored, in a user database u.
StoredUsers(u) == DOMAIN u.id_name

\* C18: group records round-trip: after insert_new_group or insert_group
\* succeeds, get_group(id) returns the name, the member_ids and the admin_ids
\* that were written, in their order, also when there are none.
C18_GroupRoundTrip ==
    (Succeeded("insert_new_group") \/ Succeeded("insert_group")) =>
        LET g == get_group(group_tree, last.id)
        IN  /\ g.res = "Some"
            /\ g.group.name = last.arg.name
            /\ g.group.member_ids = last.arg.member_ids
            /\ g.group.admin_ids = last.arg.admin_ids

\* C19: insert_new_group with a name that already maps to a group is rejected
\* and changes nothing: the group tree, the name index and the user-to-groups
\* index are as before, and the name still maps to the id of the first group.
C19_DuplicateNameRejected ==
    (last.op = "insert_new_group" /\ Has(pre_user.gname_id, last.arg.name)) =>
        /\ last.ret \notin {"Ok", "Panic"}
        /\ UserTrees = pre_user
        /\ groupname_id_tree[last.arg.name] = pre_user.gname_id[last.arg.name]

\* C19 witness: insert_new_group was called with the name of a stored group
\* and its closure aborted with TargetExists.
C19_Witness ==
    /\ last.op = "insert_new_group"
    /\ Has(pre_user.gname_id, last.arg.name)
    /\ Has(pre_user.groups, from_be_bytes(pre_user.gname_id[last.arg.name]))
    /\ last.abort = "TargetExists"

\* C20: insert_new_group and insert_group accept a group with an unused name
\* whose member_ids and admin_ids all are ids of stored users, and reject a
\* group that lists an id of no stored user, writing nothing to the group
\* tree, the name index or the user-to-groups index.
C20_MembersMustExist ==
    (last.op \in {"insert_new_group", "insert_group"}
        /\ ~Has(pre_user.gname_id, last.arg.name)) =>
        IF Range(last.arg.member_ids \o last.arg.admin_ids) \subseteq StoredUsers(pre_user)
        THEN last.ret = "Ok"
        ELSE /\ last.ret \notin {"Ok", "Panic"}
             /\ UserTrees = pre_user

\* C21: after insert_new_group or insert_group is called with an unused name
\* and member_ids and admin_ids of stored users, the call has succeeded, the
\* entry of every listed user in the user-to-groups index contains the id of
\* the group exactly once, and get_user of every listed user does not fail and
\* has the id of the group among its group_ids.
C21_ReverseIndexUpdated ==
    (last.op \in {"insert_new_group", "insert_group"}
        /\ ~Has(pre_user.gname_id, last.arg.name)
        /\ Range(last.arg.member_ids \o last.arg.admin_ids) \subseteq StoredUsers(pre_user)) =>
        /\ last.ret = "Ok"
        /\ \A user_id \in Range(last.arg.member_ids \o last.arg.admin_ids) :
               /\ Has(user_groups_tree, user_id)
               /\ Len(user_groups_tree[user_id]) % 8 = 0
               /\ Cardinality({i \in 1..(Len(user_groups_tree[user_id]) \div 8) :
                                  Slice(user_groups_tree[user_id], 8 * (i - 1), 8 * i)
                                      = u64_to_be_bytes(last.id)}) = 1
               /\ get_user(UserTrees, user_id).res = "Some"
               /\ \E j \in DOMAIN get_user(UserTrees, user_id).user.group_ids :
                      get_user(UserTrees, user_id).user.group_ids[j] = last.id

\* C22: insert_group, called with member_ids and admin_ids of stored users,
\* is rejected when the name of the group is mapped to the id of another
\* group, and otherwise (the name is unmapped, or mapped to group.id) succeeds
\* and leaves the record of the group passed under group.id.
C22_InsertGroupNameCheck ==
    (last.op = "insert_group"
        /\ Range(last.arg.member_ids \o last.arg.admin_ids) \subseteq StoredUsers(pre_user)) =>
        IF Has(pre_user.gname_id, last.arg.name)
           /\ pre_user.gname_id[last.arg.name] # u64_to_be_bytes(last.arg.id)
        THEN last.ret \notin {"Ok", "Panic"}
        ELSE /\ last.ret = "Ok"
             /\ Has(group_tree, last.arg.id)
             /\ group_tree[last.arg.id] = GroupData(last.arg)
             /\ groupname_id_tree[last.arg.name] = u64_to_be_bytes(last.arg.id)

\* C23: insert_user maintains the name index: in every state insert_user
\* calls lead to, get_userid_by_name(n) is Some(i) if and only if get_user(i)
\* is a user and has the name n.
C23_NameIndexMatchesUsers ==
    \A n \in UserNames, i \in UserIds :
        (get_userid_by_name(UserTrees, n) = [res |-> "Some", id |-> i])
            <=> (/\ get_user(UserTrees, i).res = "Some"
                 /\ get_user(UserTrees, i).user.name = n)

\* Markers of the session id in a user-to-sessions tree, whatever the user.
MarkersOf(user_sessions, session_id) ==
    {k \in DOMAIN user_sessions : SliceFrom(k, 8) = u64_to_be_bytes(session_id)}

\* C24: remove_user_session is idempotent: it returns Ok whether or not the
\* session exists; afterwards neither the session record nor a membership
\* marker of the session is stored, and a second call with the same id
\* returns Ok again and leaves the two trees as the first call left them.
C24_RemoveSessionIdempotent ==
    (last.op = "remove_user_session") =>
        /\ last.ret = "Ok"
        /\ ~Has(session_tree, last.id)
        /\ MarkersOf(user_session_tree, last.id) = {}
        /\ remove_user_session(SessionTrees, last.id) = SOutcome(SessionTrees, "Ok", 0)
        /\ ~Has(pre_session.sessions, last.id) => SessionTrees = pre_session

\* C24 witness: a stored session was removed while another session of the
\* same user stays stored.
C24_Witness ==
    /\ last.op = "remove_user_session"
    /\ Has(pre_session.sessions, last.id)
    /\ MarkersOf(pre_session.user_sessions, last.id) # {}
    /\ session_tree # EmptyTree

\* C25: however concurrent create_user_session calls interleave, a call that
\* has stored its session holds an id no other stored call holds, and the
\* record under that id is the one it wrote: no session record is overwritten
\* and two live sessions never share an id.
C25_SessionIdsNeverShared ==
    \A w \in Workers :
        logins[w].pc = "stored" =>
            /\ \A v \in Workers \ {w} :
                   logins[v].pc = "stored" => logins[v].session_id # logins[w].session_id
            /\ get_user_session(SessionTrees, logins[w].session_id)
                   = [res |-> "Some",
                      session |-> [session_id |-> logins[w].session_id,
                                   user_id |-> logins[w].user_id,
                                   creation_date |-> logins[w].creation_date]]

\* C26: filter_user_sessions(u, p) returns Ok and removes exactly the
\* sessions of u for which p returns false, record and marker; the sessions
\* of u for which p returns true and the sessions and markers of all other
\* users are stored as before.
C26_FilterRemovesExactly ==
    (last.op = "filter_user_sessions") =>
        /\ last.ret = "Ok"
        /\ DOMAIN session_tree \subseteq DOMAIN pre_session.sessions
        /\ DOMAIN user_session_tree \subseteq DOMAIN pre_session.user_sessions
        /\ \A session_id \in DOMAIN pre_session.sessions :
               LET session == get_user_session(pre_session, session_id).session
                   key == user_session_key(session.user_id, session_id)
               IN  IF session.user_id = last.arg.user_id /\ ~filter_fn(last.arg.p, session)
                   THEN ~Has(session_tree, session_id) /\ ~Has(user_session_tree, key)
                   ELSE /\ Has(session_tree, session_id)
                        /\ session_tree[session_id] = pre_session.sessions[session_id]
                        /\ Has(user_session_tree, key)

\* C26 witness: a call removed a session of the user while another session
\* stayed stored.
C26_Witness ==
    /\ last.op = "filter_user_sessions"
    /\ \E a, b \in DOMAIN pre_session.sessions :
           /\ get_user_session(pre_session, a).session.user_id = last.arg.user_id
           /\ ~Has(session_tree, a)
           /\ Has(session_tree, b)

\* C27: inserting a child into a directory whose child count is 65535 returns
\* an error and leaves the record of the directory as it was: the count does
\* not wrap and no child id is dropped.
C27_FullDirRejectsInsert ==
    (last.op \in {"insert_new_file", "insert_new_dir"} /\ last.arg.child_number = U16Max) =>
        /\ last.ret \notin {"Ok", "Panic"}
        /\ last.arg.unchanged
        /\ last.arg.stored_number = U16Max
        /\ last.arg.stored_childs = U16Max

\* C28: a user may read (write) a node if and only if the id of the user is
\* the owner_id of the node or a group of the user's group_ids occurs in the
\* read_group_ids (write_group_ids) of the node.
C28_OwnerOrGroupMay ==
    /\ (last.op = "may_read") =>
           ((last.ret = "true") <=>
               \/ last.arg.user.id = last.arg.node.owner_id
               \/ Range(last.arg.user.group_ids) \cap Range(last.arg.node.read_group_ids) # {})
    /\ (last.op = "may_write") =>
           ((last.ret = "true") <=>
               \/ last.arg.user.id = last.arg.node.owner_id
               \/ Range(last.arg.user.group_ids) \cap Range(last.arg.node.write_group_ids) # {})

\* C29: for every stored directory d, get_files_by_parent(d) and
\* get_dirs_by_parent(d) return Ok with the files, and the directories, whose
\* ids are in the stored child list of d and that are stored, in the order of
\* the child list; an id of the list that is not stored is passed over.
C29_ChildListings ==
    \A d \in DOMAIN dir_tree :
        LET child_ids == StoredChilds(dir_tree[d]).child_ids
            files == get_files_by_parent(dir_tree, file_tree, permissions_tree, d)
            dirs == get_dirs_by_parent(dir_tree, permissions_tree, d)
        IN  /\ files.res = "Ok"
            /\ [i \in 1..Len(files.nodes) |-> files.nodes[i].id]
                   = SelectSeq(child_ids, LAMBDA id : Has(file_tree, id))
            /\ dirs.res = "Ok"
            /\ [i \in 1..Len(dirs.nodes) |-> dirs.nodes[i].id]
                   = SelectSeq(child_ids, LAMBDA id : Has(dir_tree, id))

\* C30: add_read_permission and add_write_permission return NoSuchTarget when
\* the group is not stored or the node is neither a stored file nor a stored
\* directory, and MissingAuthorization when group and node are stored and the
\* user is not the owner of the node; in these cases the permission record
\* is unchanged, and only a call by the owner with a stored group changes it.
C30_PermissionCallErrors ==
    (last.op \in {"add_read_permission", "add_write_permission"}) =>
        LET group_exists == Has(group_tree, last.arg.group_id)
            is_file == Has(pre.files, last.id)
            is_dir == Has(pre.dirs, last.id)
            owner_id == OwnerIdOf(IF is_file THEN pre.files[last.id] ELSE pre.dirs[last.id])
        IN  /\ (~group_exists \/ ~(is_file \/ is_dir)) =>
                   (last.ret = "NoSuchTarget" /\ permissions_tree = pre.perms)
            /\ (group_exists /\ (is_file \/ is_dir) /\ owner_id # last.arg.user_id) =>
                   (last.ret = "MissingAuthorization" /\ permissions_tree = pre.perms)
            /\ (permissions_tree # pre.perms) =>
                   (group_exists /\ (is_file \/ is_dir) /\ owner_id = last.arg.user_id)

\* The group of the last insert_group call with the ids of the call of
\* thread w added to its members or admins.
GroupWithIdsOf(w) ==
    IF workers[w].op = "add_member_ids"
    THEN [last.arg EXCEPT !.member_ids = PushUnique(last.arg.member_ids, workers[w].arg.ids)]
    ELSE [last.arg EXCEPT !.admin_ids = PushUnique(last.arg.admin_ids, workers[w].arg.ids)]

\* C31: add_member_ids / add_admin_ids read the group and write it back, and
\* two calls that interleave lose an update.  After insert_group was called
\* with a name that is free for the group and with stored users, and two
\* calls by an admin of that group, adding stored users, have both read the
\* group before either wrote it and have both returned: both calls succeeded
\* and the stored group is the group one of them wrote, the group as it was
\* inserted with the ids of that one call and without the ids of the other.
C31_InterleavedCallsLoseUpdate ==
    (/\ last.op = "insert_group"
     /\ Has(pre_user.gname_id, last.arg.name) =>
            pre_user.gname_id[last.arg.name] = u64_to_be_bytes(last.arg.id)
     /\ Range(last.arg.member_ids \o last.arg.admin_ids) \subseteq StoredUsers(pre_user)
     /\ \A w \in Workers : workers[w].pc = "returned"
     /\ \A w \in Workers :
            /\ workers[w].arg.user_id \in Range(last.arg.admin_ids)
            /\ Range(workers[w].arg.ids) \subseteq StoredUsers(UserTrees)
            /\ \A v \in Workers : workers[v].seen = workers[w].seen) =>
        /\ \A w \in Workers : workers[w].ret = "Ok"
        /\ \E w \in Workers :
               /\ Has(group_tree, last.arg.id)
               /\ group_tree[last.arg.id] = GroupData(GroupWithIdsOf(w))

\* C32: add_user and update_user_infos, called by a user who may act and
\* with the fields the call asks for, return TargetExists when the name of
\* the message is the name of a stored user (for update_user_infos: of
\* another user than the one updated), and do not return TargetExists when
\* no stored user has the name.
C32_TargetExistsIffNameUsed ==
    (/\ last.op \in {"add_user", "update_user_infos"}
     /\ last.arg.acting_user_id # 0
     /\ last.arg.user_infos.name_some
     /\ last.op = "add_user" =>
            (last.arg.user_infos.password_some /\ ~last.arg.user_infos.id_some)
     /\ last.op = "update_user_infos" => last.arg.user_infos.id_some) =>
        LET name == last.arg.user_infos.name
            used == Has(pre_user.name_id, name)
            own == /\ last.op = "update_user_infos"
                   /\ used
                   /\ pre_user.name_id[name] = u64_to_be_bytes(last.arg.user_infos.id)
        IN  /\ (used /\ ~own) => last.ret = "TargetExists"
            /\ ~used => last.ret # "TargetExists"

C34_TraversalTerminates ==
    [][workers[Remover].pc = "loop" /\ workers'[Remover].pc # "idle" =>
           LET a == workers[Remover].arg
               b == workers'[Remover].arg
               expanded == workers'[Remover].seen
           IN  /\ \/ workers'[Remover].pc = "panicked"
                     /\ a.dirs[a.todo_stack[Len(a.todo_stack)]] = TornEntry
                  \/ workers'[Remover].pc = "loop"
                     /\ \/ Cardinality(DOMAIN b.dirs) < Cardinality(DOMAIN a.dirs)
                        \/ /\ DOMAIN b.dirs = DOMAIN a.dirs
                           /\ Len(b.todo_stack) < Len(a.todo_stack)
               /\ \A i, j \in DOMAIN expanded : i # j => expanded[i] # expanded[j]]_vars
C34_Witness ==
    /\ workers[Remover].pc = "loop"
    /\ workers[Remover].arg.todo_stack = <<>>
    /\ Len(workers[Remover].seen) >= 2
    /\ workers[Remover].id \in Range(workers[Remover].seen)

\* C35: the session index is consistent, also while calls of several threads
\* overlap: every session record has the marker user_id ++ session_id of its
\* user, every marker user_id ++ session_id has the record of session_id, and
\* that record is a session of user_id; so no scan of filter_user_sessions
\* meets a marker without its record.
C35_SessionIndexConsistent ==
    /\ \A session_id \in DOMAIN session_tree :
           LET session == get_user_session(SessionTrees, session_id)
           IN  /\ session.res = "Some"
               /\ Has(user_session_tree, user_session_key(session.session.user_id, session_id))
    /\ \A key \in DOMAIN user_session_tree :
           LET session == get_user_session(SessionTrees, from_be_bytes(Slice(key, 8, 16)))
           IN  /\ session.res = "Some"
               /\ session.session.user_id = from_be_bytes(Slice(key, 0, 8))
    /\ \A w \in Workers : logins[w].pc # "panicked"

\* C36: permission records track nodes: an id has a permission record exactly
\* if it has a file record or a directory record, and a remove_file or
\* remove_dir that returned Ok has deleted no permission record of an id
\* that still has a file or directory record.
C36_PermissionsTrackNodes ==
    /\ DOMAIN permissions_tree = DOMAIN dir_tree \cup DOMAIN file_tree
    /\ last.op \in {"remove_file", "remove_dir"} /\ last.ret = "Ok" =>
           \A id \in DOMAIN dir_tree \cup DOMAIN file_tree :
               Has(pre.perms, id) => Has(permissions_tree, id)

\* The names the calls give to directories.
DirNames == {RootName} \cup {a.name : a \in InsertArgs} \cup {a.name : a \in UpdateArgs}

\* C37: directory records stay well-formed: every stored directory record is
\* parent_id(8) | owner_id(8) | child_count(2) | child_count ids of 8 bytes |
\* name, so its count is the number of child ids the record stores.
C37_DirRecordsWellFormed ==
    \A d \in DOMAIN dir_tree :
        /\ InRange(dir_tree[d], 16, 18)
        /\ \E name \in DirNames :
               /\ Len(dir_tree[d])
                      = 18 + 8 * from_be_bytes(Slice(dir_tree[d], 16, 18)) + Len(name)
               /\ SliceFrom(dir_tree[d], Len(dir_tree[d]) - Len(name)) = name

\* C38: the root directory useradd creates is a complete node: get_dir
\* returns it, and add_dir of its owner with this directory as the parent
\* passes the permission check and inserts the child.
C38_RootDirIsCompleteNode ==
    /\ last.op = "useradd" /\ last.ret = "Ok" =>
           get_dir(dir_tree, permissions_tree, last.arg.dir_id).res = "Some"
    /\ (/\ last.op = "add_dir"
        /\ last.arg.dir_infos.parent_id_some
        /\ Has(pre_user.rootdir, last.id)
        /\ from_be_bytes(pre_user.rootdir[last.id]) = last.arg.dir_infos.parent_id) =>
           last.ret = "Ok"

\* C39: the offsets update_dir (18 + 8 * child_count) and add_readable_group /
\* add_writeable_group (2 + 8 * read_count) compute in 16 bit arithmetic never
\* overflow: for every stored count the computation does not panic and the
\* offset is the byte offset of the end of the list.
C39_OffsetsNeverOverflow ==
    last.op \in {"update_dir", "add_readable_group", "add_writeable_group"} =>
        /\ ~last.arg.overflow
        /\ last.arg.offset = last.arg.end_of_list

====
